---- MODULE Spec2Model ----
(***************************************************************************)
(* A state-machine model of the Telegram content assistant bot             *)
(* (src/bot/main.py, src/bot/db.py): the per-user FSM session (state tag + *)
(* scratchpad), the draft store, the first-match dispatcher and the        *)
(* conversation flows built on them.                                       *)
(*                                                                         *)
(* Texts are finite sequences of tokens.  A token stands for one word or   *)
(* one punctuation character of the real string ("/cancel", "MEDIA", "|",  *)
(* "1", " "); the string operations the code uses (strip, lower, isdigit,  *)
(* int, startswith, split) are computed token by token.  The Russian       *)
(* labels of the bot are written as ASCII tokens.                          *)
(***************************************************************************)
EXTENDS Integers, Sequences, FiniteSets, TLC

VARIABLES
    sess,         \* FSM storage: sess[u] = [state, data] of chat user u
    users,        \* table users: set of rows [id, telegram_id]
    drafts,       \* table drafts: set of rows [id, user_id, idea_text, draft_text, created_at]
    nextUserId,   \* users.id sequence
    nextDraftId,  \* drafts.id sequence
    clock,        \* created_at of the most recent insert (server now())
    ev,           \* the update handled last: whose it was, whether its text was /cancel
    out,          \* what the last handler answered and sent
    via,          \* history: how each user last entered SendDraftForm:waiting_for_channel
    tasks,        \* in-flight delete tasks (handlers suspended between two awaits)
    codec         \* a media draft on its way through the codec: fields, payload, decoding

vars == <<sess, users, drafts, nextUserId, nextDraftId, clock, ev, out, via, tasks, codec>>

-----------------------------------------------------------------------------
(* Bounds of the model *)

\* ids the drafts sequence hands out in the dialog specifications
MaxDraftId == 2
\* ids the drafts sequence hands out in the store specification
MaxStoreDraftId == 3
\* length of a generated post, in tokens
MaxTextLen == 4
\* delete confirmations handled concurrently
MaxTasks == 2

Users == {1, 2}

None == "None"

-----------------------------------------------------------------------------
(* Text: sequences of tokens *)

Whitespace == {" ", "NL"}
DigitToks == <<"0", "1", "2", "3", "4", "5", "6", "7", "8", "9">>
Digits == {DigitToks[i] : i \in DOMAIN DigitToks}

DigitValue(c) == (CHOOSE i \in DOMAIN DigitToks : DigitToks[i] = c) - 1

\* str(n) of a number below ten
Str(n) == <<DigitToks[n + 1]>>

RECURSIVE LStrip(_)
LStrip(t) == IF t # <<>> /\ Head(t) \in Whitespace THEN LStrip(Tail(t)) ELSE t

RECURSIVE RStrip(_)
RStrip(t) ==
    IF t # <<>> /\ t[Len(t)] \in Whitespace THEN RStrip(SubSeq(t, 1, Len(t) - 1)) ELSE t

\* str.strip()
Strip(t) == RStrip(LStrip(t))

LowerTok(c) == IF c = "/CANCEL" THEN "/cancel" ELSE IF c = "A" THEN "a" ELSE c

\* str.lower()
Lower(t) == [i \in 1..Len(t) |-> LowerTok(t[i])]

\* str.isdigit(): non-empty and digits only
IsDigit(t) == t # <<>> /\ \A i \in 1..Len(t) : t[i] \in Digits

RECURSIVE ToInt(_)
\* int(text) of a digit string
ToInt(t) == IF t = <<>> THEN 0 ELSE 10 * ToInt(SubSeq(t, 1, Len(t) - 1)) + DigitValue(t[Len(t)])

\* str.startswith(prefix)
StartsWith(t, p) == Len(t) >= Len(p) /\ SubSeq(t, 1, Len(p)) = p

\* the index of the first sep token of t at or after position i, or 0
RECURSIVE FindTok(_, _, _)
FindTok(t, sep, i) ==
    IF i > Len(t) THEN 0 ELSE IF t[i] = sep THEN i ELSE FindTok(t, sep, i + 1)

\* str.split(sep, maxsplit)
RECURSIVE SplitMax(_, _, _)
SplitMax(t, sep, maxsplit) ==
    LET k == FindTok(t, sep, 1) IN
    IF maxsplit = 0 \/ k = 0 THEN <<t>>
    ELSE <<SubSeq(t, 1, k - 1)>> \o SplitMax(SubSeq(t, k + 1, Len(t)), sep, maxsplit - 1)

Cancel == <<"/cancel">>

-----------------------------------------------------------------------------
(* Scratchpad values.  Python values of different types share one mapping, *)
(* so every value carries its type: None, str, int or the media dict.      *)

NoneV == [t |-> "none", v |-> 0]
S(x) == [t |-> "str", v |-> x]
I(n) == [t |-> "int", v |-> n]
M(mtype, fid) == [t |-> "media", v |-> <<mtype, fid>>]

\* Python truthiness of a scratchpad value
Truthy(x) ==
    CASE x.t = "none" -> FALSE
      [] x.t = "str" -> x.v # <<>>
      [] x.t = "int" -> x.v # 0
      [] x.t = "media" -> TRUE

\* (x or ""): the text of a str value, "" for None
OrEmpty(x) == IF x.t = "str" THEN x.v ELSE <<>>

\* FSMContext: state None (idle) and an empty data dict by default
Idle == None
EmptyData == [k \in {} |-> NoneV]
FreshSession == [state |-> Idle, data |-> EmptyData]

\* data.get(key): None when the key is absent
Get(d, k) == IF k \in DOMAIN d THEN d[k] ELSE NoneV

\* data.get(key, ""): "" when the key is absent
GetOr(d, k) == IF k \in DOMAIN d THEN d[k] ELSE S(<<>>)

\* state.update_data(**upd): shallow merge, upd wins
UpdateData(d, upd) == upd @@ d

\* state.set_state / update_data / clear on the session of user u
SetSession(u, st, d) == sess' = [sess EXCEPT ![u] = [state |-> st, data |-> d]]
ClearSession(u) == sess' = [sess EXCEPT ![u] = FreshSession]

\* get_user_id_from_context: the cached id if truthy, else the sender's id
get_user_id_from_context(u, d) ==
    IF Truthy(Get(d, "_user_telegram_id")) THEN Get(d, "_user_telegram_id").v ELSE u

-----------------------------------------------------------------------------
(* Events and replies *)

NoMedia == <<"none", "none">>

\* a message update: text, caption and attachment <<type, file_id>>
TextMsg(t) == [text |-> t, caption |-> <<>>, media |-> NoMedia]
MediaMsg(att, cap) == [text |-> <<>>, caption |-> cap, media |-> att]

\* what the model remembers of the update handled last
MsgEv(u, m, h) ==
    [u |-> u, kind |-> "message", cancel |-> m.text = <<"/cancel">>, h |-> h]
CbEv(u, h) == [u |-> u, kind |-> "callback", cancel |-> FALSE, h |-> h]
NoEv == [u |-> 0, kind |-> "none", cancel |-> FALSE, h |-> "none"]

\* one bot.send_* call to a channel
Send(channel, kind, fid, body) == [channel |-> channel, kind |-> kind, fid |-> fid, body |-> body]

\* the handler's answer: a reply tag (which message the user gets), the sends
\* attempted to a channel and the value a store call returned
\* and the draft id it names (0: none)
Out(reply, sent, result) == [reply |-> reply, sent |-> sent, result |-> result, ref |-> 0]
OutRef(reply, result, ref) == [reply |-> reply, sent |-> <<>>, result |-> result, ref |-> ref]
Answer(reply) == out' = Out(reply, <<>>, "none")
NoOut == Out("none", <<>>, "none")

-----------------------------------------------------------------------------
(* Draft store (src/bot/main.py, functions over the tables of src/bot/db.py) *)

HasUser(tid) == \E r \in users : r.telegram_id = tid

\* get_or_create_user: the users.id of telegram_id, inserting the row if absent
UserIdOf(tid) ==
    IF HasUser(tid) THEN (CHOOSE r \in users : r.telegram_id = tid).id ELSE nextUserId
UsersAfter(tid) ==
    IF HasUser(tid) THEN users ELSE users \cup {[id |-> nextUserId, telegram_id |-> tid]}
NextUserIdAfter(tid) == IF HasUser(tid) THEN nextUserId ELSE nextUserId + 1
get_or_create_user(tid) == users' = UsersAfter(tid) /\ nextUserId' = NextUserIdAfter(tid)

\* the rows of every user, the owner filter forgotten
DraftsOfAnyUser(tid) == drafts

\* the rows of drafts owned by telegram_id
DraftsOf(tid) == {d \in drafts : d.user_id = UserIdOf(tid)}

\* all orders of a finite set of rows
Orders(rows) ==
    {s \in [1..Cardinality(rows) -> rows] : \A i, j \in DOMAIN s : i # j => s[i] # s[j]}

\* a listing that puts the newest draft first, as get_user_drafts does
get_user_drafts_newest_first(tid) ==
    {s \in Orders(DraftsOf(tid)) :
        \A i, j \in DOMAIN s : i < j => s[i].created_at >= s[j].created_at}

\* get_user_drafts_full: ORDER BY created_at ASC, and nothing else: rows with
\* equal created_at come back in an order the database is free to choose
get_user_drafts_full(tid) ==
    {s \in Orders(DraftsOf(tid)) :
        \A i, j \in DOMAIN s : i < j => s[i].created_at <= s[j].created_at}

\* a lookup by id alone, the owner not compared
get_draft_by_id_of_anyone(tid, id) == {d \in drafts : d.id = id}

\* get_user_draft_by_id: the set holding the row, empty when there is none
get_user_draft_by_id(tid, id) == {d \in DraftsOf(tid) : d.id = id}

\* create_draft: INSERT with id from the sequence and created_at = now(),
\* which is not before any earlier insert's and may equal the latest one's
create_draft(tid, idea, text, ts) ==
    /\ ts \in (IF \E d \in drafts : d.created_at = clock THEN {clock, clock + 1}
               ELSE {clock + 1})
    /\ get_or_create_user(tid)
    /\ drafts' = drafts \cup {[id |-> nextDraftId, user_id |-> UserIdOf(tid),
                              idea_text |-> idea, draft_text |-> text, created_at |-> ts]}
    /\ nextDraftId' = nextDraftId + 1
    /\ clock' = ts

\* delete_user_draft, first half: SELECT the row by id and owner
delete_user_draft_select(tid, id) == get_user_draft_by_id(tid, id) # {}

\* delete_user_draft, second half: when the SELECT found the row, session.delete
\* and commit issue DELETE ... WHERE id = :id, which removes the row if it is
\* still there and matches nothing otherwise; the call then returns TRUE
\* the delete removing the oldest row instead of the row with this id
delete_oldest_commit(found, id) ==
    drafts' = IF found
              THEN {r \in drafts : \E o \in drafts : o.id < r.id}
              ELSE drafts

delete_user_draft_commit(found, id) ==
    drafts' = IF found THEN {r \in drafts : r.id # id} ELSE drafts

\* delete_user_draft run without interruption, and what it returns
delete_user_draft_result(tid, id) == delete_user_draft_select(tid, id)
delete_user_draft(tid, id) ==
    /\ get_or_create_user(tid)
    /\ delete_user_draft_commit(delete_user_draft_select(tid, id), id)
    /\ UNCHANGED <<nextDraftId, clock>>

\* a handler that only reads the store (it still provisions the user)
ReadStore(tid) == get_or_create_user(tid) /\ UNCHANGED <<drafts, nextDraftId, clock>>
NoStore == UNCHANGED <<users, nextUserId, drafts, nextDraftId, clock>>

-----------------------------------------------------------------------------
(* Dispatcher: the handlers in registration order (the order of the        *)
(* decorators in src/bot/main.py); an update runs the first handler whose  *)
(* filter matches, and no handler when none matches.                       *)

\* Command("name"): the first word of the text (or of the caption of a media
\* message) is exactly the command
CmdText(m) == IF m.text # <<>> THEN m.text ELSE m.caption
IsCommand(m, c) ==
    LET s == LStrip(CmdText(m)) IN
    s # <<>> /\ s[1] = c /\ (Len(s) = 1 \/ s[2] \in Whitespace)

\* the message handlers, in registration order
MessageHandlers == <<
    [f |-> "command", arg |-> "/start", h |-> "cmd_start"],
    [f |-> "command", arg |-> "/help", h |-> "cmd_help"],
    [f |-> "text", arg |-> "BTN_CREATE", h |-> "btn_create_post"],
    [f |-> "text", arg |-> "BTN_DRAFTS", h |-> "btn_my_drafts_menu"],
    [f |-> "text", arg |-> "BTN_AI", h |-> "btn_ai_tools"],
    [f |-> "text", arg |-> "BTN_PLAN", h |-> "btn_planning"],
    [f |-> "text", arg |-> "BTN_SEARCH", h |-> "btn_search"],
    [f |-> "text", arg |-> "BTN_HELP", h |-> "btn_help"],
    [f |-> "command", arg |-> "/send_draft", h |-> "cmd_send_draft"],
    [f |-> "state", arg |-> "SendDraftForm:waiting_for_number", h |-> "process_send_draft_number"],
    [f |-> "state", arg |-> "SendDraftForm:waiting_for_channel", h |-> "process_send_draft_channel"],
    [f |-> "command", arg |-> "/edit_draft", h |-> "cmd_edit_draft"],
    [f |-> "state", arg |-> "EditDraftForm:waiting_for_id", h |-> "process_edit_draft_id"],
    [f |-> "state", arg |-> "EditDraftForm:waiting_for_text", h |-> "process_edit_draft_text"],
    [f |-> "state", arg |-> "EditGeneratedPostForm:waiting_for_ai_edit", h |-> "process_genpost_ai_edit"],
    [f |-> "state", arg |-> "EditGeneratedPostForm:waiting_for_media", h |-> "process_genpost_attach_media"],
    [f |-> "command", arg |-> "/save_media_draft", h |-> "cmd_save_media_draft"],
    [f |-> "state", arg |-> "SaveMediaDraftForm:waiting_for_media", h |-> "process_save_media_draft"],
    [f |-> "command", arg |-> "/idea", h |-> "cmd_idea"],
    [f |-> "state", arg |-> "PlanForm:profile", h |-> "process_profile"],
    [f |-> "state", arg |-> "PlanForm:own_idea", h |-> "process_own_idea_for_idea"],
    [f |-> "command", arg |-> "/draft", h |-> "cmd_draft"],
    [f |-> "state", arg |-> "DraftForm:confirm", h |-> "process_draft_confirm"],
    [f |-> "state", arg |-> "DraftForm:idea", h |-> "process_draft_idea"],
    [f |-> "state", arg |-> "DraftForm:title", h |-> "process_draft_title"],
    [f |-> "state", arg |-> "DraftForm:body", h |-> "process_draft_body"],
    [f |-> "state", arg |-> "DraftForm:conclusion", h |-> "process_draft_conclusion"],
    [f |-> "command", arg |-> "/my_drafts", h |-> "cmd_my_drafts"],
    [f |-> "command", arg |-> "/delete_draft", h |-> "cmd_delete_draft"],
    [f |-> "state", arg |-> "DeleteDraftForm:waiting_for_id", h |-> "process_delete_draft_id"],
    [f |-> "state", arg |-> "DeleteDraftForm:waiting_for_confirm", h |-> "process_delete_draft_confirm"],
    [f |-> "command", arg |-> "/cancel", h |-> "cmd_cancel"],
    [f |-> "command", arg |-> "/rewrite", h |-> "cmd_rewrite"],
    [f |-> "state", arg |-> "RewriteForm:waiting_for_text", h |-> "process_rewrite"],
    [f |-> "command", arg |-> "/hashtags", h |-> "cmd_hashtags"],
    [f |-> "state", arg |-> "HashtagsForm:waiting_for_text", h |-> "process_hashtags"],
    [f |-> "command", arg |-> "/variants", h |-> "cmd_variants"],
    [f |-> "state", arg |-> "VariantsForm:waiting_for_text", h |-> "process_variants"],
    [f |-> "command", arg |-> "/plan", h |-> "cmd_plan"],
    [f |-> "state", arg |-> "ContentPlanForm:waiting_for_topic", h |-> "process_plan_topic"],
    [f |-> "command", arg |-> "/templates", h |-> "cmd_templates"],
    [f |-> "command", arg |-> "/style", h |-> "cmd_style"],
    [f |-> "state", arg |-> "StyleCopyForm:waiting_for_example", h |-> "process_style_example"],
    [f |-> "state", arg |-> "StyleCopyForm:waiting_for_topic", h |-> "process_style_topic"],
    [f |-> "command", arg |-> "/search", h |-> "cmd_search"],
    [f |-> "command", arg |-> "/media", h |-> "cmd_media_gallery"],
    [f |-> "state", arg |-> "SearchForm:waiting_for_query", h |-> "process_search"] >>

\* the callback-query handlers, in registration order
CallbackHandlers == <<
    [f |-> "equals", arg |-> <<"start", ":", "begin">>, h |-> "cb_start_begin"],
    [f |-> "equals", arg |-> <<"start", ":", "tutorial">>, h |-> "cb_start_tutorial"],
    [f |-> "equals", arg |-> <<"tutorial", ":", "2">>, h |-> "cb_tutorial_2"],
    [f |-> "equals", arg |-> <<"tutorial", ":", "3">>, h |-> "cb_tutorial_3"],
    [f |-> "prefix", arg |-> <<"help", ":">>, h |-> "cb_help_section"],
    [f |-> "equals", arg |-> <<"help", ":", "back">>, h |-> "cb_help_back"],
    [f |-> "prefix", arg |-> <<"menu", ":">>, h |-> "cb_menu_action"],
    [f |-> "equals", arg |-> <<"start_send_draft">>, h |-> "cb_start_send_draft"],
    [f |-> "prefix", arg |-> <<"delete_confirm", ":">>, h |-> "cb_delete_confirm"],
    [f |-> "equals", arg |-> <<"delete_cancel">>, h |-> "cb_delete_cancel"],
    [f |-> "equals", arg |-> <<"draft_cancel">>, h |-> "cb_draft_cancel"],
    [f |-> "equals", arg |-> <<"draft_skip_conclusion">>, h |-> "cb_draft_skip_conclusion"],
    [f |-> "equals", arg |-> <<"save_generated_post">>, h |-> "cb_save_generated_post"],
    [f |-> "equals", arg |-> <<"close_generated_post">>, h |-> "cb_close_generated_post"],
    [f |-> "equals", arg |-> <<"genpost_close">>, h |-> "cb_genpost_close"],
    [f |-> "equals", arg |-> <<"genpost_save">>, h |-> "cb_genpost_save"],
    [f |-> "equals", arg |-> <<"genpost_send">>, h |-> "cb_genpost_send"],
    [f |-> "equals", arg |-> <<"genpost_edit_menu">>, h |-> "cb_genpost_edit_menu"],
    [f |-> "equals", arg |-> <<"genpost_back">>, h |-> "cb_genpost_back"],
    [f |-> "equals", arg |-> <<"genpost_ai_edit">>, h |-> "cb_genpost_ai_edit"],
    [f |-> "equals", arg |-> <<"genpost_ai_title">>, h |-> "cb_genpost_ai_title"],
    [f |-> "equals", arg |-> <<"genpost_shorten">>, h |-> "cb_genpost_shorten"],
    [f |-> "equals", arg |-> <<"genpost_expand">>, h |-> "cb_genpost_expand"],
    [f |-> "equals", arg |-> <<"genpost_add_hashtags">>, h |-> "cb_genpost_add_hashtags"],
    [f |-> "equals", arg |-> <<"genpost_attach_media">>, h |-> "cb_genpost_attach_media"],
    [f |-> "equals", arg |-> <<"idea_mode", ":", "channel">>, h |-> "cb_idea_mode_channel"],
    [f |-> "equals", arg |-> <<"idea_mode", ":", "own">>, h |-> "cb_idea_mode_own"],
    [f |-> "equals", arg |-> <<"ownidea_to_draft">>, h |-> "cb_ownidea_to_draft"],
    [f |-> "equals", arg |-> <<"ownidea_self">>, h |-> "cb_ownidea_self"],
    [f |-> "equals", arg |-> <<"ownidea_generate_post">>, h |-> "cb_ownidea_generate_post"],
    [f |-> "prefix", arg |-> <<"drafts_page", ":">>, h |-> "cb_drafts_page"],
    [f |-> "prefix", arg |-> <<"quick", ":">>, h |-> "cb_quick_action"],
    [f |-> "prefix", arg |-> <<"plan_period", ":">>, h |-> "cb_plan_period"],
    [f |-> "equals", arg |-> <<"plan_cancel">>, h |-> "cb_plan_cancel"],
    [f |-> "prefix", arg |-> <<"template", ":">>, h |-> "cb_template_select"],
    [f |-> "equals", arg |-> <<"template_back">>, h |-> "cb_template_back"],
    [f |-> "equals", arg |-> <<"template_cancel">>, h |-> "cb_template_cancel"],
    [f |-> "prefix", arg |-> <<"media_page", ":">>, h |-> "cb_media_page"],
    [f |-> "prefix", arg |-> <<"media_view", ":">>, h |-> "cb_media_view"],
    [f |-> "prefix", arg |-> <<"media_send", ":">>, h |-> "cb_media_send"],
    [f |-> "prefix", arg |-> <<"media_del", ":">>, h |-> "cb_media_del"] >>

\* whether the filter of a message handler accepts message m in FSM state st
MsgMatches(r, m, st) ==
    CASE r.f = "command" -> IsCommand(m, r.arg)
      [] r.f = "text" -> m.text = <<r.arg>>
      [] r.f = "state" -> st = r.arg

\* whether the filter of a callback handler accepts callback data d
CbMatches(r, d) ==
    CASE r.f = "equals" -> d = r.arg
      [] r.f = "prefix" -> d # <<>> /\ StartsWith(d, r.arg)

\* the handler a message would run if the last match won
MsgRouteLastMatch(m, st) ==
    LET hits == {i \in DOMAIN MessageHandlers : MsgMatches(MessageHandlers[i], m, st)} IN
    IF hits = {} THEN "none"
    ELSE MessageHandlers[CHOOSE i \in hits : \A j \in hits : i >= j].h

\* the handler a message runs: the first match, "none" when nothing matches
MsgRoute(m, st) ==
    LET hits == {i \in DOMAIN MessageHandlers : MsgMatches(MessageHandlers[i], m, st)} IN
    IF hits = {} THEN "none"
    ELSE MessageHandlers[CHOOSE i \in hits : \A j \in hits : i <= j].h

\* the handler a callback query runs
CbRoute(d) ==
    LET hits == {i \in DOMAIN CallbackHandlers : CbMatches(CallbackHandlers[i], d)} IN
    IF hits = {} THEN "none"
    ELSE CallbackHandlers[CHOOSE i \in hits : \A j \in hits : i <= j].h

-----------------------------------------------------------------------------
(* Inputs of the model *)

\* attachments <<type, file_id>> a message can carry
Attachments == {<<"photo", "f1">>}

\* the commands and reply-keyboard buttons the dispatcher knows
CommandTexts == {<<MessageHandlers[i].arg>> : i \in {j \in DOMAIN MessageHandlers :
                                        MessageHandlers[j].f \in {"command", "text"}}}

\* a text a user can type that reads like the payload of a media draft
MediaLookalike == <<"MEDIA", "|", "photo", "|", "f1", "|", "c">>

\* what a user types into a dialog: nothing, /cancel, a word, another word,
\* "+", "-", a channel name, a payload look-alike, or a position
ContentTexts == {<<>>, Cancel, <<"a">>, <<"i">>, <<"+">>, <<"-">>, <<"@c">>, MediaLookalike,
                 <<" ", "+", " ">>, <<"+", "+">>}
                \cup {Str(i) : i \in 0..MaxDraftId}

Texts == CommandTexts \cup ContentTexts

Captions == {<<>>, <<"c">>} \cup {Str(u) : u \in Users}

Msgs == {TextMsg(t) : t \in Texts} \cup {MediaMsg(a, c) : a \in Attachments, c \in Captions}

\* what the language model answers: "" is a failed call
AiTexts == {<<>>, <<"x">>}

\* the FSM states
States == {Idle, "EditGeneratedPostForm:editing", "ContentPlanForm:waiting_for_period"}
          \cup {MessageHandlers[i].arg : i \in {j \in DOMAIN MessageHandlers :
                                                 MessageHandlers[j].f = "state"}}

\* the dispatcher's choice for every message and state of the model
MsgRouteTable == [m \in Msgs |-> [st \in States |-> MsgRoute(m, st)]]

-----------------------------------------------------------------------------
(* Handler plumbing *)

WaitChannel == "SendDraftForm:waiting_for_channel"

NoVia == [src |-> "none", id |-> 0, text |-> <<>>, media |-> NoMedia]
Via(src, id, text, media) == [src |-> src, id |-> id, text |-> text, media |-> media]

\* the history variable follows the session: it is kept while the user stays
\* in the channel-collection state and forgotten otherwise
KeepVia(u) ==
    via' = [via EXCEPT ![u] = IF sess'[u].state = WaitChannel THEN via[u] ELSE NoVia]
SetVia(u, x) == via' = [via EXCEPT ![u] = x]

\* message m of user u is dispatched to handler h
OnMessage(u, m, h) ==
    /\ MsgRouteTable[m][sess[u].state] = h
    /\ ev' = MsgEv(u, m, h)
    /\ UNCHANGED <<tasks, codec>>

\* an update no handler accepts: the dispatcher drops it
unhandled_message(u, m) ==
    /\ OnMessage(u, m, "none")
    /\ UNCHANGED <<sess, users, nextUserId, drafts, nextDraftId, clock, via>>
    /\ out' = Out("none", <<>>, "none")

\* (message.text or "").strip()
StrippedText(m) == Strip(m.text)

\* the attachment a handler recognises: photo, video, video_note, document, voice
MediaOf(m) == m.media

-----------------------------------------------------------------------------
(* /cancel *)

\* cmd_cancel: state.clear() and the acknowledgement
cmd_cancel_body(u) ==
    /\ ClearSession(u)
    /\ Answer("dialog_cancelled")
    /\ NoStore

cmd_cancel(u, m) ==
    /\ OnMessage(u, m, "cmd_cancel")
    /\ cmd_cancel_body(u)
    /\ KeepVia(u)

-----------------------------------------------------------------------------
(* Media codec *)

NotMedia == [ok |-> FALSE, type |-> <<>>, file_id |-> <<>>, caption |-> <<>>]

\* the decoding splitting at every "|", the caption ending at its first one
parse_media_draft_split_all(draft_text) ==
    IF ~StartsWith(draft_text, <<"MEDIA", "|">>) THEN NotMedia
    ELSE LET parts == SplitMax(draft_text, "|", Len(draft_text)) IN
         IF Len(parts) < 4 THEN NotMedia
         ELSE [ok |-> TRUE, type |-> parts[2], file_id |-> parts[3], caption |-> parts[4]]

\* parse_media_draft: "MEDIA|type|file_id|caption", the caption taking the rest
parse_media_draft(draft_text) ==
    IF ~StartsWith(draft_text, <<"MEDIA", "|">>) THEN NotMedia
    ELSE LET parts == SplitMax(draft_text, "|", 3) IN
         IF Len(parts) < 4 THEN NotMedia
         ELSE [ok |-> TRUE, type |-> parts[2], file_id |-> parts[3], caption |-> parts[4]]

\* f"MEDIA|{type}|{file_id}|{caption}"
MediaPayload(mtype, fid, caption) == <<"MEDIA", "|", mtype, "|", fid, "|">> \o caption

\* no media draft in the codec
NoCodec == [pc |-> "none", kind |-> "none", ref |-> "none", caption |-> <<>>,
            payload |-> <<>>, media_info |-> NotMedia]

\* process_save_media_draft and cb_genpost_save build the payload of a media draft
EncodeMedia ==
    /\ codec.pc = "fields"
    /\ codec' = [codec EXCEPT !.pc = "payload",
                              !.payload = MediaPayload(codec.kind, codec.ref, codec.caption)]
    /\ UNCHANGED <<sess, users, drafts, nextUserId, nextDraftId, clock, ev, out, via, tasks>>

\* a consumer of the stored payload decodes it
DecodeMedia ==
    /\ codec.pc = "payload"
    /\ codec' = [codec EXCEPT !.pc = "decoded", !.media_info = parse_media_draft(codec.payload)]
    /\ UNCHANGED <<sess, users, drafts, nextUserId, nextDraftId, clock, ev, out, via, tasks>>

-----------------------------------------------------------------------------
(* /send_draft *)

\* what the Bot API can answer to a send: a chat id is @username or a number
SendResults(channel) ==
    IF IsDigit(channel) \/ channel = <<"@c">> THEN {"ok", "forbidden", "error"}
    ELSE {"error"}

ReplyOfSend(res, okReply) ==
    CASE res = "ok" -> okReply
      [] res = "forbidden" -> "send_forbidden"
      [] res = "error" -> "send_failed"

cmd_send_draft_body(u, d) ==
    /\ SetSession(u, "SendDraftForm:waiting_for_number", d)
    /\ Answer("send_draft_prompt")
    /\ NoStore

cmd_send_draft(u, m) ==
    /\ OnMessage(u, m, "cmd_send_draft")
    /\ cmd_send_draft_body(u, sess[u].data)
    /\ KeepVia(u)

process_send_draft_number(u, m) ==
    /\ OnMessage(u, m, "process_send_draft_number")
    /\ LET text == StrippedText(m)
           d == sess[u].data
           user_id == get_user_id_from_context(u, d)
       IN IF Lower(text) = Cancel THEN cmd_cancel_body(u) /\ KeepVia(u)
          ELSE IF ~IsDigit(text)
          THEN Answer("number_must_be_digit") /\ UNCHANGED sess /\ NoStore /\ KeepVia(u)
          ELSE \E rows \in get_user_drafts_full(user_id) :
               LET draft_number == ToInt(text) IN
               IF draft_number < 1 \/ draft_number > Len(rows)
               THEN Answer("draft_not_found") /\ UNCHANGED sess /\ ReadStore(user_id)
                    /\ KeepVia(u)
               ELSE LET draft == rows[draft_number] IN
                    /\ SetSession(u, WaitChannel,
                           UpdateData(d, ("draft_text" :> S(draft.draft_text))
                                         @@ ("draft_number" :> I(draft_number))))
                    /\ Answer("draft_selected")
                    /\ ReadStore(user_id)
                    /\ SetVia(u, Via("draft", draft.id, draft.draft_text, NoMedia))

\* the bot.send_* calls for a generated post with an attachment
GenpostSends(channel, media, text) ==
    LET mtype == media[1]  fid == <<media[2]>> IN
    CASE mtype = "photo" -> <<Send(channel, "photo", fid, text)>>
      [] mtype = "video" -> <<Send(channel, "video", fid, text)>>
      [] mtype = "video_note" -> <<Send(channel, "video_note", fid, <<>>),
                                   Send(channel, "message", <<>>, text)>>
      [] mtype = "document" -> <<Send(channel, "document", fid, text)>>
      [] mtype = "voice" -> <<Send(channel, "voice", fid, text)>>
      [] OTHER -> <<Send(channel, "message", <<>>, text)>>

\* the bot.send_* calls for a stored draft: media payload first, else plain text
DraftSends(channel, draft_text) ==
    LET info == parse_media_draft(draft_text) IN
    IF info.ok
    THEN IF info.type \in {<<"photo">>, <<"video">>, <<"video_note">>, <<"document">>, <<"voice">>}
         THEN <<Send(channel, info.type[1], info.file_id,
                     IF info.type = <<"video_note">> THEN <<>> ELSE info.caption)>>
         ELSE <<Send(channel, "message", <<>>, draft_text)>>
    ELSE <<Send(channel, "message", <<>>, draft_text)>>

process_send_draft_channel(u, m) ==
    /\ OnMessage(u, m, "process_send_draft_channel")
    /\ LET channel == StrippedText(m)
           d == sess[u].data
           genpost_text == Get(d, "genpost_text")
           genpost_media == Get(d, "genpost_media")
           draft_text == GetOr(d, "draft_text")
       IN /\ ClearSession(u)
          /\ NoStore
          /\ KeepVia(u)
          /\ IF Truthy(genpost_text)
             THEN \E res \in SendResults(channel) :
                  out' = Out(ReplyOfSend(res, "post_sent"),
                             IF Truthy(genpost_media)
                             THEN GenpostSends(channel, genpost_media.v, genpost_text.v)
                             ELSE <<Send(channel, "message", <<>>, genpost_text.v)>>,
                             res)
             ELSE IF ~Truthy(draft_text) THEN Answer("no_draft_text")
             ELSE \E res \in SendResults(channel) :
                  out' = Out(ReplyOfSend(res, "draft_sent"),
                             DraftSends(channel, draft_text.v), res)

cb_start_send_draft_body(u) ==
    cmd_send_draft_body(u, UpdateData(sess[u].data, "_user_telegram_id" :> I(u)))

-----------------------------------------------------------------------------
(* /edit_draft *)

cmd_edit_draft_body(u, d) ==
    /\ SetSession(u, "EditDraftForm:waiting_for_id", d)
    /\ Answer("edit_draft_prompt")
    /\ NoStore

cmd_edit_draft(u, m) ==
    /\ OnMessage(u, m, "cmd_edit_draft")
    /\ cmd_edit_draft_body(u, sess[u].data)
    /\ KeepVia(u)

process_edit_draft_id(u, m) ==
    /\ OnMessage(u, m, "process_edit_draft_id")
    /\ LET text == StrippedText(m)
           d == sess[u].data
           user_id == get_user_id_from_context(u, d)
       IN IF Lower(text) = Cancel THEN cmd_cancel_body(u)
          ELSE IF ~IsDigit(text)
          THEN Answer("number_must_be_digit") /\ UNCHANGED sess /\ NoStore
          ELSE \E rows \in get_user_drafts_full(user_id) :
               LET draft_number == ToInt(text) IN
               IF draft_number < 1 \/ draft_number > Len(rows)
               THEN Answer("draft_not_found") /\ UNCHANGED sess /\ ReadStore(user_id)
               ELSE LET draft == rows[draft_number] IN
                    /\ SetSession(u, "EditDraftForm:waiting_for_text",
                           UpdateData(d, ("draft_id" :> I(draft.id))
                                         @@ ("draft_number" :> I(draft_number))
                                         @@ ("_user_telegram_id" :> I(user_id))))
                    /\ Answer("draft_selected_for_edit")
                    /\ ReadStore(user_id)
    /\ KeepVia(u)

\* UPDATE drafts SET draft_text = new_text WHERE id = draft_id
\* the update merging the new text into the payload and into the idea
update_draft_text_merging(id, new_text) ==
    drafts' = {IF r.id = id
               THEN [r EXCEPT !.draft_text = r.draft_text \o new_text, !.idea_text = new_text]
               ELSE r : r \in drafts}

update_draft_text(id, new_text) ==
    drafts' = {IF r.id = id THEN [r EXCEPT !.draft_text = new_text] ELSE r : r \in drafts}

process_edit_draft_text(u, m) ==
    /\ OnMessage(u, m, "process_edit_draft_text")
    /\ UNCHANGED <<users, nextUserId, nextDraftId, clock>>
    /\ LET new_text == StrippedText(m)
           d == sess[u].data
           draft_id == Get(d, "draft_id")
       IN IF new_text = <<>>
          THEN Answer("text_empty") /\ UNCHANGED <<sess, drafts>>
          ELSE IF draft_id.t = "none"
          THEN ClearSession(u) /\ Answer("edit_no_draft") /\ UNCHANGED drafts
          ELSE IF ~\E r \in drafts : r.id = draft_id.v
          THEN ClearSession(u) /\ Answer("edit_draft_gone") /\ UNCHANGED drafts
          ELSE /\ update_draft_text(draft_id.v, new_text)
               /\ ClearSession(u)
               /\ Answer("draft_updated")
    /\ KeepVia(u)

-----------------------------------------------------------------------------
(* /delete_draft *)

cmd_delete_draft_body(u, d) ==
    /\ SetSession(u, "DeleteDraftForm:waiting_for_id", d)
    /\ Answer("delete_draft_prompt")
    /\ NoStore

cmd_delete_draft(u, m) ==
    /\ OnMessage(u, m, "cmd_delete_draft")
    /\ cmd_delete_draft_body(u, sess[u].data)
    /\ KeepVia(u)

\* the id step ending the dialog on a position that is out of range
process_delete_draft_id_ending(u, m) ==
    /\ OnMessage(u, m, "process_delete_draft_id")
    /\ LET text == StrippedText(m)
           d == sess[u].data
           user_id == get_user_id_from_context(u, d)
       IN IF Lower(text) = Cancel THEN cmd_cancel_body(u)
          ELSE IF ~IsDigit(text)
          THEN Answer("number_must_be_digit") /\ UNCHANGED sess /\ NoStore
          ELSE \E rows \in get_user_drafts_full(user_id) :
               LET draft_number == ToInt(text) IN
               IF draft_number < 1 \/ draft_number > Len(rows)
               THEN Answer("draft_not_found") /\ ClearSession(u) /\ ReadStore(user_id)
               ELSE LET draft == rows[draft_number] IN
                    /\ SetSession(u, "DeleteDraftForm:waiting_for_confirm",
                           UpdateData(d, ("draft_id" :> I(draft.id))
                                         @@ ("draft_number" :> I(draft_number))))
                    /\ out' = OutRef("delete_confirm_prompt", "none", draft.id)
                    /\ ReadStore(user_id)
    /\ KeepVia(u)

process_delete_draft_id(u, m) ==
    /\ OnMessage(u, m, "process_delete_draft_id")
    /\ LET text == StrippedText(m)
           d == sess[u].data
           user_id == get_user_id_from_context(u, d)
       IN IF Lower(text) = Cancel THEN cmd_cancel_body(u)
          ELSE IF ~IsDigit(text)
          THEN Answer("number_must_be_digit") /\ UNCHANGED sess /\ NoStore
          ELSE \E rows \in get_user_drafts_full(user_id) :
               LET draft_number == ToInt(text) IN
               IF draft_number < 1 \/ draft_number > Len(rows)
               THEN Answer("draft_not_found") /\ UNCHANGED sess /\ ReadStore(user_id)
               ELSE LET draft == rows[draft_number] IN
                    /\ SetSession(u, "DeleteDraftForm:waiting_for_confirm",
                           UpdateData(d, ("draft_id" :> I(draft.id))
                                         @@ ("draft_number" :> I(draft_number))))
                    /\ out' = OutRef("delete_confirm_prompt", "none", draft.id)
                    /\ ReadStore(user_id)
    /\ KeepVia(u)

\* the confirm step taking free text as a new attempt at the id step
process_delete_draft_confirm_retrying(u, m) ==
    /\ OnMessage(u, m, "process_delete_draft_confirm")
    /\ Answer("use_buttons")
    /\ SetSession(u, "DeleteDraftForm:waiting_for_id", sess[u].data)
    /\ NoStore
    /\ KeepVia(u)

process_delete_draft_confirm(u, m) ==
    /\ OnMessage(u, m, "process_delete_draft_confirm")
    /\ Answer("use_buttons")
    /\ UNCHANGED sess
    /\ NoStore
    /\ KeepVia(u)

-----------------------------------------------------------------------------
(* Callback plumbing *)

\* callback data the bot puts on its buttons
IdArgs(n) == {Str(i) : i \in 1..n}
Callbacks ==
    {r.arg : r \in {CallbackHandlers[i] : i \in {j \in DOMAIN CallbackHandlers :
                                                  CallbackHandlers[j].f = "equals"}}}
    \cup {<<"delete_confirm", ":">> \o a : a \in IdArgs(MaxStoreDraftId)}
    \cup {<<"media_send", ":">> \o a : a \in IdArgs(MaxStoreDraftId)}
    \cup {<<"media_del", ":">> \o a : a \in IdArgs(MaxStoreDraftId)}
    \cup {<<"media_view", ":">> \o a : a \in IdArgs(MaxStoreDraftId)}
    \cup {<<"menu", ":", a>> : a \in {"back", "idea", "draft", "media", "my_drafts", "edit",
              "delete", "send", "media_gallery", "rewrite", "hashtags", "variants", "style",
              "shorten_expand", "plan", "templates"}}
    \cup {<<"quick", ":", a>> : a \in {"edit", "delete", "send"}}
    \cup {<<"plan_period", ":", a>> : a \in {"week", "month"}}
    \cup {<<"drafts_page", ":", a>> : a \in {"0", "noop"}}
    \cup {<<"media_page", ":", a>> : a \in {"0", "noop"}}
    \cup {<<"help", ":", a>> : a \in {"create", "commands", "back"}}
    \cup {<<"template", ":", a>> : a \in {"news", "none"}}
    \cup {<<"draft_act", ":", "send", ":", "1">>}

CbRouteTable == [d \in Callbacks |-> CbRoute(d)]

\* callback query with data cd of user u is dispatched to handler h
OnCallback(u, cd, h) ==
    /\ CbRouteTable[cd] = h
    /\ ev' = CbEv(u, h)
    /\ UNCHANGED <<tasks, codec>>

\* a callback query no handler accepts: the dispatcher drops it
unhandled_callback(u, cd) ==
    /\ OnCallback(u, cd, "none")
    /\ UNCHANGED <<sess, users, nextUserId, drafts, nextDraftId, clock, via>>
    /\ out' = Out("none", <<>>, "none")

\* callback.data.split(":")[1]
CbArg(cd) == SplitMax(cd, ":", Len(cd))[2]

-----------------------------------------------------------------------------
(* Delete callbacks *)

cb_delete_confirm(u, cd) ==
    /\ OnCallback(u, cd, "cb_delete_confirm")
    /\ LET arg == SubSeq(cd, 3, Len(cd)) IN
       IF ~IsDigit(arg)
       THEN Answer("delete_bad_callback") /\ UNCHANGED sess /\ NoStore
       ELSE LET draft_id == ToInt(arg)
                success == delete_user_draft_result(u, draft_id)
            IN /\ delete_user_draft(u, draft_id)
               /\ ClearSession(u)
               /\ out' = OutRef(IF success THEN "draft_deleted" ELSE "delete_failed",
                                IF success THEN "true" ELSE "false", draft_id)
    /\ KeepVia(u)

cb_delete_cancel(u, cd) ==
    /\ OnCallback(u, cd, "cb_delete_cancel")
    /\ ClearSession(u)
    /\ Answer("delete_cancelled")
    /\ NoStore
    /\ KeepVia(u)

-----------------------------------------------------------------------------
(* Media gallery callbacks *)

cb_media_send(u, cd) ==
    /\ OnCallback(u, cd, "cb_media_send")
    /\ LET arg == CbArg(cd) IN
       IF ~IsDigit(arg)
       THEN Answer("media_bad_callback") /\ UNCHANGED sess /\ NoStore /\ KeepVia(u)
       ELSE LET draft_id == ToInt(arg)
                found == get_user_draft_by_id(u, draft_id)
            IN /\ ReadStore(u)
               /\ IF found = {}
                  THEN Answer("media_not_found") /\ UNCHANGED sess /\ KeepVia(u)
                  ELSE LET draft == CHOOSE r \in found : TRUE IN
                       /\ SetSession(u, WaitChannel,
                              UpdateData(sess[u].data,
                                  ("draft_text" :> S(draft.draft_text))
                                  @@ ("draft_number" :> S(<<"media-">> \o Str(draft_id)))
                                  @@ ("draft_id" :> I(draft_id))
                                  @@ ("_user_telegram_id" :> I(u))))
                       /\ Answer("media_selected")
                       /\ SetVia(u, Via("media", draft.id, draft.draft_text, NoMedia))

cb_media_del(u, cd) ==
    /\ OnCallback(u, cd, "cb_media_del")
    /\ UNCHANGED sess
    /\ LET arg == CbArg(cd) IN
       IF ~IsDigit(arg)
       THEN Answer("media_bad_callback") /\ NoStore
       ELSE LET draft_id == ToInt(arg)
                ok == delete_user_draft_result(u, draft_id)
            IN /\ delete_user_draft(u, draft_id)
               /\ out' = OutRef(IF ok THEN "media_deleted" ELSE "media_not_deleted",
                                IF ok THEN "true" ELSE "false", draft_id)
    /\ KeepVia(u)

-----------------------------------------------------------------------------
(* /save_media_draft *)

cmd_save_media_draft_body(u, d) ==
    /\ SetSession(u, "SaveMediaDraftForm:waiting_for_media", d)
    /\ Answer("save_media_prompt")
    /\ NoStore

process_save_media_draft(u, m) ==
    /\ OnMessage(u, m, "process_save_media_draft")
    /\ IF Lower(StrippedText(m)) = Cancel THEN cmd_cancel_body(u)
       ELSE IF MediaOf(m) = NoMedia
       THEN Answer("no_media_seen") /\ UNCHANGED sess /\ NoStore
       ELSE LET caption == m.caption
                payload == MediaPayload(MediaOf(m)[1], MediaOf(m)[2], caption)
                user_id == get_user_id_from_context(u, sess[u].data)
            IN /\ \E ts \in {clock, clock + 1} :
                      create_draft(user_id, IF caption # <<>> THEN caption ELSE <<"NoCaption">>,
                                   payload, ts)
               /\ ClearSession(u)
               /\ Answer("media_saved")
    /\ KeepVia(u)

-----------------------------------------------------------------------------
(* /draft: the draft builder *)

\* "\n\n".join(parts)
RECURSIVE JoinParts(_)
JoinParts(parts) ==
    IF parts = <<>> THEN <<>>
    ELSE IF Len(parts) = 1 THEN parts[1]
    ELSE parts[1] \o <<"NL", "NL">> \o JoinParts(Tail(parts))

\* the payload with a "-" conclusion kept as a conclusion
BuildDraftTextDashKept(idea, title, body, conclusion_text) ==
    Strip(JoinParts(<<(<<"Idea:", " ">> \o Strip(idea)), (<<"Title:", " ">> \o Strip(title)),
                      (<<"Text:", "NL">> \o Strip(body)),
                      (<<"Conclusion:", "NL">> \o Strip(conclusion_text))>>))

\* the payload finalize_draft assembles from the scratchpad and the conclusion
BuildDraftText(idea, title, body, conclusion_text) ==
    LET conclusion == IF conclusion_text = <<"-">> THEN <<>> ELSE conclusion_text
        parts == (IF idea # <<>> THEN <<(<<"Idea:", " ">> \o Strip(idea))>> ELSE <<>>)
              \o (IF title # <<>> THEN <<(<<"Title:", " ">> \o Strip(title))>> ELSE <<>>)
              \o (IF body # <<>> THEN <<(<<"Text:", "NL">> \o Strip(body))>> ELSE <<>>)
              \o (IF conclusion # <<>> THEN <<(<<"Conclusion:", "NL">> \o Strip(conclusion))>>
                  ELSE <<>>)
    IN Strip(JoinParts(parts))

\* finalize_draft resetting the state and keeping the scratchpad
finalize_draft_keeping(u, conclusion_text) ==
    LET d == sess[u].data
        idea == GetOr(d, "idea").v
        title == GetOr(d, "title").v
        body == GetOr(d, "body").v
        user_id == get_user_id_from_context(u, d)
    IN /\ \E ts \in {clock, clock + 1} :
              create_draft(user_id, idea, BuildDraftText(idea, title, body, conclusion_text), ts)
       /\ Answer("draft_saved")
       /\ SetSession(u, Idle, d)

finalize_draft(u, conclusion_text) ==
    LET d == sess[u].data
        idea == GetOr(d, "idea").v
        title == GetOr(d, "title").v
        body == GetOr(d, "body").v
        user_id == get_user_id_from_context(u, d)
    IN /\ \E ts \in {clock, clock + 1} :
              create_draft(user_id, idea, BuildDraftText(idea, title, body, conclusion_text), ts)
       /\ Answer("draft_saved")
       /\ ClearSession(u)

cmd_draft_body(u, d) ==
    /\ SetSession(u, "DraftForm:confirm", d)
    /\ Answer("draft_intro")
    /\ NoStore

cmd_draft(u, m) ==
    /\ OnMessage(u, m, "cmd_draft")
    /\ cmd_draft_body(u, sess[u].data)
    /\ KeepVia(u)

\* the confirm step taking any text that holds a "+"
process_draft_confirm_containing(u, m) ==
    /\ OnMessage(u, m, "process_draft_confirm")
    /\ NoStore
    /\ IF \A i \in 1..Len(m.text) : m.text[i] # "+"
       THEN Answer("send_plus") /\ UNCHANGED sess
       ELSE SetSession(u, "DraftForm:idea", sess[u].data) /\ Answer("ask_idea")
    /\ KeepVia(u)

process_draft_confirm(u, m) ==
    /\ OnMessage(u, m, "process_draft_confirm")
    /\ NoStore
    /\ IF StrippedText(m) # <<"+">>
       THEN Answer("send_plus") /\ UNCHANGED sess
       ELSE SetSession(u, "DraftForm:idea", sess[u].data) /\ Answer("ask_idea")
    /\ KeepVia(u)

\* one content step of the builder: store the stripped text under key, go to next
BuilderStep(u, m, key, next, emptyReply, nextReply) ==
    /\ NoStore
    /\ IF StrippedText(m) = <<>>
       THEN Answer(emptyReply) /\ UNCHANGED sess
       ELSE /\ SetSession(u, next, UpdateData(sess[u].data, key :> S(StrippedText(m))))
            /\ Answer(nextReply)
    /\ KeepVia(u)

\* the idea step handing over to the body step, the title step left out
process_draft_idea_to_body(u, m) ==
    /\ OnMessage(u, m, "process_draft_idea")
    /\ BuilderStep(u, m, "idea", "DraftForm:body", "idea_empty", "ask_body")

process_draft_idea(u, m) ==
    /\ OnMessage(u, m, "process_draft_idea")
    /\ BuilderStep(u, m, "idea", "DraftForm:title", "idea_empty", "ask_title")

process_draft_title(u, m) ==
    /\ OnMessage(u, m, "process_draft_title")
    /\ BuilderStep(u, m, "title", "DraftForm:body", "title_empty", "ask_body")

process_draft_body(u, m) ==
    /\ OnMessage(u, m, "process_draft_body")
    /\ BuilderStep(u, m, "body", "DraftForm:conclusion", "body_empty", "ask_conclusion")

process_draft_conclusion(u, m) ==
    /\ OnMessage(u, m, "process_draft_conclusion")
    /\ finalize_draft(u, StrippedText(m))
    /\ KeepVia(u)

cb_draft_cancel(u, cd) ==
    /\ OnCallback(u, cd, "cb_draft_cancel")
    /\ ClearSession(u)
    /\ Answer("draft_cancelled")
    /\ NoStore
    /\ KeepVia(u)

\* the skip button ending the dialog without persisting anything
cb_draft_skip_discarding(u, cd) ==
    /\ OnCallback(u, cd, "cb_draft_skip_conclusion")
    /\ NoStore
    /\ IF sess[u].state # "DraftForm:conclusion"
       THEN Answer("cannot_skip") /\ UNCHANGED sess
       ELSE Answer("draft_saved") /\ ClearSession(u)
    /\ KeepVia(u)

\* the skip button finalizing from the body step as well
cb_draft_skip_from_body(u, cd) ==
    /\ OnCallback(u, cd, "cb_draft_skip_conclusion")
    /\ IF sess[u].state \notin {"DraftForm:body", "DraftForm:conclusion"}
       THEN Answer("cannot_skip") /\ UNCHANGED sess /\ NoStore
       ELSE finalize_draft(u, <<>>)
    /\ KeepVia(u)

cb_draft_skip_conclusion(u, cd) ==
    /\ OnCallback(u, cd, "cb_draft_skip_conclusion")
    /\ IF sess[u].state # "DraftForm:conclusion"
       THEN Answer("cannot_skip") /\ UNCHANGED sess /\ NoStore
       ELSE finalize_draft(u, <<>>)
    /\ KeepVia(u)

-----------------------------------------------------------------------------
(* /my_drafts *)

\* show_drafts_page: reads the listing and shows it
show_drafts_page(tid) ==
    /\ ReadStore(tid)
    /\ \E rows \in get_user_drafts_full(tid) :
          Answer(IF rows = <<>> THEN "no_drafts" ELSE "drafts_page")

cmd_my_drafts(u, m) ==
    /\ OnMessage(u, m, "cmd_my_drafts")
    /\ show_drafts_page(get_user_id_from_context(u, sess[u].data))
    /\ UNCHANGED sess
    /\ KeepVia(u)

-----------------------------------------------------------------------------
(* The generated-post card *)

Editing == "EditGeneratedPostForm:editing"

\* the card's replies differ by whether media is attached
CardReply(name, d) == Out(name, <<>>, IF Truthy(Get(d, "attached_media")) THEN "media" ELSE "none")

\* a handler that leaves the user with a generated post on the card
ShowGeneratedPost(u, post, idea, reply) ==
    /\ SetSession(u, Editing,
           UpdateData(sess[u].data, ("last_generated_post" :> S(post))
                                    @@ ("last_generated_idea" :> S(idea))))
    /\ Answer(reply)

cmd_rewrite_body(u, d) ==
    /\ SetSession(u, "RewriteForm:waiting_for_text", d)
    /\ Answer("rewrite_prompt")
    /\ NoStore

cmd_rewrite(u, m) ==
    /\ OnMessage(u, m, "cmd_rewrite")
    /\ cmd_rewrite_body(u, sess[u].data)
    /\ KeepVia(u)

process_rewrite(u, m) ==
    /\ OnMessage(u, m, "process_rewrite")
    /\ IF Lower(StrippedText(m)) = Cancel THEN cmd_cancel_body(u)
       ELSE IF StrippedText(m) = <<>>
       THEN Answer("rewrite_empty") /\ UNCHANGED sess /\ NoStore
       ELSE \E rewritten \in AiTexts :
            /\ NoStore
            /\ IF rewritten = <<>>
               THEN ClearSession(u) /\ Answer("rewrite_failed")
               ELSE ShowGeneratedPost(u, rewritten, <<"Rewrite">>, "rewritten")
    /\ KeepVia(u)

cb_save_generated_post(u, cd) ==
    /\ OnCallback(u, cd, "cb_save_generated_post")
    /\ LET d == sess[u].data
           idea_text == Strip(OrEmpty(Get(d, "last_generated_idea")))
           post_text == Strip(OrEmpty(Get(d, "last_generated_post")))
       IN IF post_text = <<>>
          THEN ClearSession(u) /\ Answer("no_post_text") /\ NoStore
          ELSE /\ \E ts \in {clock, clock + 1} :
                     create_draft(u, IF idea_text # <<>> THEN idea_text ELSE <<"NoIdea">>,
                                  post_text, ts)
               /\ ClearSession(u)
               /\ Answer("post_saved")
    /\ KeepVia(u)

cb_close_generated_post(u, cd) ==
    /\ OnCallback(u, cd, "cb_close_generated_post")
    /\ ClearSession(u)
    /\ Answer("post_not_saved")
    /\ NoStore
    /\ KeepVia(u)

cb_genpost_close(u, cd) ==
    /\ OnCallback(u, cd, "cb_genpost_close")
    /\ ClearSession(u)
    /\ Answer("post_not_saved")
    /\ NoStore
    /\ KeepVia(u)

cb_genpost_save(u, cd) ==
    /\ OnCallback(u, cd, "cb_genpost_save")
    /\ LET d == sess[u].data
           idea_text == GetOr(d, "last_generated_idea").v
           post_text == GetOr(d, "last_generated_post").v
           attached_media == Get(d, "attached_media")
           draft_text == IF Truthy(attached_media)
                         THEN MediaPayload(attached_media.v[1], attached_media.v[2], post_text)
                         ELSE post_text
       IN IF post_text = <<>>
          THEN ClearSession(u) /\ Answer("no_post_text") /\ NoStore
          ELSE /\ \E ts \in {clock, clock + 1} :
                     create_draft(u, IF idea_text # <<>> THEN idea_text ELSE <<"NoIdea">>,
                                  draft_text, ts)
               /\ ClearSession(u)
               /\ Answer("post_saved")
    /\ KeepVia(u)

cb_genpost_send(u, cd) ==
    /\ OnCallback(u, cd, "cb_genpost_send")
    /\ NoStore
    /\ LET d == sess[u].data
           post_text == GetOr(d, "last_generated_post")
           attached_media == Get(d, "attached_media")
       IN IF ~Truthy(post_text)
          THEN Answer("no_text_to_send") /\ UNCHANGED sess /\ KeepVia(u)
          ELSE /\ SetSession(u, WaitChannel,
                      UpdateData(d, ("genpost_text" :> post_text)
                                    @@ ("genpost_media" :> attached_media)))
               /\ Answer("ask_channel")
               /\ SetVia(u, Via("genpost", 0, post_text.v,
                                IF Truthy(attached_media) THEN attached_media.v ELSE NoMedia))

cb_genpost_edit_menu(u, cd) ==
    /\ OnCallback(u, cd, "cb_genpost_edit_menu")
    /\ Answer("edit_menu")
    /\ UNCHANGED sess
    /\ NoStore
    /\ KeepVia(u)

cb_genpost_back(u, cd) ==
    /\ OnCallback(u, cd, "cb_genpost_back")
    /\ out' = CardReply("card", sess[u].data)
    /\ UNCHANGED sess
    /\ NoStore
    /\ KeepVia(u)

cb_genpost_ai_edit(u, cd) ==
    /\ OnCallback(u, cd, "cb_genpost_ai_edit")
    /\ SetSession(u, "EditGeneratedPostForm:waiting_for_ai_edit", sess[u].data)
    /\ Answer("ask_ai_edit")
    /\ NoStore
    /\ KeepVia(u)

\* the three buttons that replace the post by edit_post_with_ai's answer
\* what a card callback answers when its AI call fails
AiFailReplyOf(h) ==
    CASE h = "cb_genpost_shorten" -> "shorten_failed"
      [] h = "cb_genpost_expand" -> "expand_failed"
      [] h = "cb_genpost_add_hashtags" -> "hashtags_failed"
      [] h = "cb_genpost_ai_title" -> "title_failed"
      [] OTHER -> "edit_failed"

\* what a card callback answers with the post its AI call produced
AiOkReplyOf(h) ==
    CASE h = "cb_genpost_shorten" -> "shortened_post"
      [] h = "cb_genpost_expand" -> "expanded_post"
      [] h = "cb_genpost_add_hashtags" -> "post_with_hashtags"
      [] OTHER -> "updated_post"

\* the AI replacement dropping the whole dialog when the AI call fails
GenpostAiReplaceDropping(u, failReply, okReply) ==
    LET d == sess[u].data
        post_text == GetOr(d, "last_generated_post")
    IN /\ NoStore
       /\ IF ~Truthy(post_text)
          THEN Answer("no_post_text_alert") /\ UNCHANGED sess
          ELSE \E edited \in AiTexts :
               IF edited = <<>>
               THEN Answer(failReply) /\ ClearSession(u)
               ELSE /\ SetSession(u, sess[u].state,
                           UpdateData(d, "last_generated_post" :> S(edited)))
                    /\ out' = CardReply(okReply, d)

GenpostAiReplace(u, failReply, okReply) ==
    LET d == sess[u].data
        post_text == GetOr(d, "last_generated_post")
    IN /\ NoStore
       /\ IF ~Truthy(post_text)
          THEN Answer("no_post_text_alert") /\ UNCHANGED sess
          ELSE \E edited \in AiTexts :
               IF edited = <<>>
               THEN Answer(failReply) /\ UNCHANGED sess
               ELSE /\ SetSession(u, sess[u].state,
                           UpdateData(d, "last_generated_post" :> S(edited)))
                    /\ out' = CardReply(okReply, d)

cb_genpost_ai_title(u, cd) ==
    /\ OnCallback(u, cd, "cb_genpost_ai_title")
    /\ GenpostAiReplace(u, "title_failed", "updated_post")
    /\ KeepVia(u)

cb_genpost_shorten(u, cd) ==
    /\ OnCallback(u, cd, "cb_genpost_shorten")
    /\ GenpostAiReplace(u, "shorten_failed", "shortened_post")
    /\ KeepVia(u)

cb_genpost_expand(u, cd) ==
    /\ OnCallback(u, cd, "cb_genpost_expand")
    /\ GenpostAiReplace(u, "expand_failed", "expanded_post")
    /\ KeepVia(u)

cb_genpost_add_hashtags(u, cd) ==
    /\ OnCallback(u, cd, "cb_genpost_add_hashtags")
    /\ NoStore
    /\ LET d == sess[u].data
           post_text == GetOr(d, "last_generated_post")
       IN IF ~Truthy(post_text)
          THEN Answer("no_post_text_alert") /\ UNCHANGED sess
          ELSE \E hashtags \in AiTexts :
               IF hashtags = <<>>
               THEN Answer("hashtags_failed") /\ UNCHANGED sess
               ELSE LET new_post == post_text.v \o <<"NL", "NL">> \o hashtags IN
                    /\ Len(new_post) <= MaxTextLen
                    /\ SetSession(u, sess[u].state,
                           UpdateData(d, "last_generated_post" :> S(new_post)))
                    /\ out' = CardReply("post_with_hashtags", d)
    /\ KeepVia(u)

cb_genpost_attach_media(u, cd) ==
    /\ OnCallback(u, cd, "cb_genpost_attach_media")
    /\ SetSession(u, "EditGeneratedPostForm:waiting_for_media", sess[u].data)
    /\ Answer("ask_media")
    /\ NoStore
    /\ KeepVia(u)

\* a sub-state cancelled by dropping the whole dialog, as cmd_cancel does
genpost_substate_dropped(u, reply) ==
    /\ ClearSession(u)
    /\ Answer("dialog_cancelled")

\* /cancel in a sub-state of the card: back to the card, the scratchpad kept
genpost_substate_cancel(u, reply) ==
    /\ SetSession(u, Editing, sess[u].data)
    /\ out' = CardReply(reply, sess[u].data)

process_genpost_ai_edit(u, m) ==
    /\ OnMessage(u, m, "process_genpost_ai_edit")
    /\ NoStore
    /\ LET d == sess[u].data
           post_text == GetOr(d, "last_generated_post")
       IN IF Lower(StrippedText(m)) = Cancel
          THEN genpost_substate_cancel(u, "edit_cancelled")
          ELSE IF StrippedText(m) = <<>>
          THEN Answer("edit_request_empty") /\ UNCHANGED sess
          ELSE IF ~Truthy(post_text)
          THEN ClearSession(u) /\ Answer("post_text_lost")
          ELSE \E edited \in AiTexts :
               IF edited = <<>>
               THEN SetSession(u, Editing, d) /\ Answer("edit_failed")
               ELSE /\ SetSession(u, Editing, UpdateData(d, "last_generated_post" :> S(edited)))
                    /\ out' = CardReply("updated_post", d)
    /\ KeepVia(u)

\* the attach step keeping nothing of the scratchpad but the attachment
process_genpost_attach_media_alone(u, m) ==
    /\ OnMessage(u, m, "process_genpost_attach_media")
    /\ NoStore
    /\ IF Lower(StrippedText(m)) = Cancel
       THEN genpost_substate_cancel(u, "attach_cancelled")
       ELSE IF MediaOf(m) = NoMedia
       THEN Answer("no_media_seen") /\ UNCHANGED sess
       ELSE /\ SetSession(u, Editing,
                   UpdateData(EmptyData, "attached_media" :> M(MediaOf(m)[1], MediaOf(m)[2])))
            /\ Answer("card_with_media")
    /\ KeepVia(u)

process_genpost_attach_media(u, m) ==
    /\ OnMessage(u, m, "process_genpost_attach_media")
    /\ NoStore
    /\ LET d == sess[u].data IN
       IF Lower(StrippedText(m)) = Cancel
       THEN genpost_substate_cancel(u, "attach_cancelled")
       ELSE IF MediaOf(m) = NoMedia
       THEN Answer("no_media_seen") /\ UNCHANGED sess
       ELSE /\ SetSession(u, Editing,
                   UpdateData(d, "attached_media" :> M(MediaOf(m)[1], MediaOf(m)[2])))
            /\ Answer("card_with_media")
    /\ KeepVia(u)

-----------------------------------------------------------------------------
(* /idea *)

\* a handler that only answers: no state, scratchpad or store change
ReplyOnly(u, reply) ==
    /\ Answer(reply)
    /\ UNCHANGED sess
    /\ NoStore
    /\ KeepVia(u)

\* a handler that only moves the dialog to state st
EnterState(u, st, d, reply) ==
    /\ SetSession(u, st, d)
    /\ Answer(reply)
    /\ NoStore

cmd_idea_body(u) == ReplyOnly(u, "idea_modes")

cmd_idea(u, m) ==
    /\ OnMessage(u, m, "cmd_idea")
    /\ cmd_idea_body(u)

cb_idea_mode_channel(u, cd) ==
    /\ OnCallback(u, cd, "cb_idea_mode_channel")
    /\ EnterState(u, "PlanForm:profile", sess[u].data, "ask_profile")
    /\ KeepVia(u)

cb_idea_mode_own(u, cd) ==
    /\ OnCallback(u, cd, "cb_idea_mode_own")
    /\ EnterState(u, "PlanForm:own_idea", sess[u].data, "ask_own_idea")
    /\ KeepVia(u)

\* plan_graph.invoke always returns ideas (it falls back to a fixed list)
\* the ideas come from the language model or, when its call fails, from the
\* fallback of generate_ideas, which takes len(profile): a message without
\* text has profile None, and the failed call then raises out of the handler
process_profile(u, m) ==
    /\ OnMessage(u, m, "process_profile")
    /\ \/ ClearSession(u) /\ Answer("ideas")
       \/ m.text = <<>> /\ UNCHANGED sess /\ Answer("generating_ideas")
    /\ NoStore
    /\ KeepVia(u)

process_own_idea_for_idea(u, m) ==
    /\ OnMessage(u, m, "process_own_idea_for_idea")
    /\ NoStore
    /\ IF StrippedText(m) = <<>>
       THEN Answer("idea_empty") /\ UNCHANGED sess
       ELSE /\ SetSession(u, sess[u].state,
                   UpdateData(sess[u].data, "idea_for_draft" :> S(StrippedText(m))))
            /\ Answer("own_idea_choices")
    /\ KeepVia(u)

\* the hand-over entering the builder at its first step, the idea not carried
cb_ownidea_to_draft_idea_step(u, cd) ==
    /\ OnCallback(u, cd, "cb_ownidea_to_draft")
    /\ NoStore
    /\ LET d == sess[u].data
           idea_text == Strip(OrEmpty(Get(d, "idea_for_draft")))
       IN IF idea_text = <<>>
          THEN ClearSession(u) /\ Answer("idea_lost")
          ELSE /\ SetSession(u, "DraftForm:title", UpdateData(d, "idea_for_draft" :> NoneV))
               /\ Answer("ask_title")
    /\ KeepVia(u)

cb_ownidea_to_draft(u, cd) ==
    /\ OnCallback(u, cd, "cb_ownidea_to_draft")
    /\ NoStore
    /\ LET d == sess[u].data
           idea_text == Strip(OrEmpty(Get(d, "idea_for_draft")))
       IN IF idea_text = <<>>
          THEN ClearSession(u) /\ Answer("idea_lost")
          ELSE /\ SetSession(u, "DraftForm:title",
                      UpdateData(d, ("idea" :> S(idea_text)) @@ ("idea_for_draft" :> NoneV)))
               /\ Answer("ask_title")
    /\ KeepVia(u)

cb_ownidea_self(u, cd) ==
    /\ OnCallback(u, cd, "cb_ownidea_self")
    /\ ClearSession(u)
    /\ Answer("write_yourself")
    /\ NoStore
    /\ KeepVia(u)

cb_ownidea_generate_post(u, cd) ==
    /\ OnCallback(u, cd, "cb_ownidea_generate_post")
    /\ NoStore
    /\ LET d == sess[u].data
           idea_text == Strip(OrEmpty(Get(d, "idea_for_draft")))
       IN IF idea_text = <<>>
          THEN ClearSession(u) /\ Answer("idea_lost")
          ELSE \E post_text \in AiTexts :
               IF post_text = <<>>
               THEN ClearSession(u) /\ Answer("generate_failed")
               ELSE /\ SetSession(u, Editing,
                           UpdateData(d, ("last_generated_idea" :> S(idea_text))
                                         @@ ("last_generated_post" :> S(post_text))
                                         @@ ("attached_media" :> NoneV)))
                    /\ Answer("generated_post")
    /\ KeepVia(u)

-----------------------------------------------------------------------------
(* /hashtags, /variants, /plan, /templates, /style, /search *)

cmd_hashtags_body(u, d) == EnterState(u, "HashtagsForm:waiting_for_text", d, "hashtags_prompt")

cmd_hashtags(u, m) ==
    /\ OnMessage(u, m, "cmd_hashtags")
    /\ cmd_hashtags_body(u, sess[u].data)
    /\ KeepVia(u)

\* /hashtags and /variants: one text in, the language model's answer out
OneShotAi(u, m, emptyReply, failReply, okReply) ==
    IF Lower(StrippedText(m)) = Cancel THEN cmd_cancel_body(u)
    ELSE IF StrippedText(m) = <<>>
    THEN Answer(emptyReply) /\ UNCHANGED sess /\ NoStore
    ELSE \E answer \in AiTexts :
         /\ ClearSession(u)
         /\ NoStore
         /\ Answer(IF answer = <<>> THEN failReply ELSE okReply)

process_hashtags(u, m) ==
    /\ OnMessage(u, m, "process_hashtags")
    /\ OneShotAi(u, m, "hashtags_empty", "hashtags_failed", "hashtags")
    /\ KeepVia(u)

cmd_variants_body(u, d) == EnterState(u, "VariantsForm:waiting_for_text", d, "variants_prompt")

cmd_variants(u, m) ==
    /\ OnMessage(u, m, "cmd_variants")
    /\ cmd_variants_body(u, sess[u].data)
    /\ KeepVia(u)

process_variants(u, m) ==
    /\ OnMessage(u, m, "process_variants")
    /\ OneShotAi(u, m, "variants_empty", "variants_failed", "variants")
    /\ KeepVia(u)

cmd_plan_body(u, d) == EnterState(u, "ContentPlanForm:waiting_for_topic", d, "plan_prompt")

cmd_plan(u, m) ==
    /\ OnMessage(u, m, "cmd_plan")
    /\ cmd_plan_body(u, sess[u].data)
    /\ KeepVia(u)

process_plan_topic(u, m) ==
    /\ OnMessage(u, m, "process_plan_topic")
    /\ IF Lower(StrippedText(m)) = Cancel THEN cmd_cancel_body(u)
       ELSE IF StrippedText(m) = <<>>
       THEN Answer("topic_empty") /\ UNCHANGED sess /\ NoStore
       ELSE EnterState(u, "ContentPlanForm:waiting_for_period",
                       UpdateData(sess[u].data, "plan_topic" :> S(StrippedText(m))),
                       "ask_period")
    /\ KeepVia(u)

cb_plan_period(u, cd) ==
    /\ OnCallback(u, cd, "cb_plan_period")
    /\ \E plan \in AiTexts :
          /\ ClearSession(u)
          /\ NoStore
          /\ Answer(IF plan = <<>> THEN "plan_failed" ELSE "plan")
    /\ KeepVia(u)

cb_plan_cancel(u, cd) ==
    /\ OnCallback(u, cd, "cb_plan_cancel")
    /\ ClearSession(u)
    /\ Answer("plan_cancelled")
    /\ NoStore
    /\ KeepVia(u)

\* the keys of POST_TEMPLATES
TemplateKeys == {"news", "review", "story", "tip", "poll"}

cmd_templates_body(u) == ReplyOnly(u, "templates")

cmd_templates(u, m) ==
    /\ OnMessage(u, m, "cmd_templates")
    /\ cmd_templates_body(u)

cb_template_select(u, cd) ==
    /\ OnCallback(u, cd, "cb_template_select")
    /\ ReplyOnly(u, IF CbArg(cd) \in {<<k>> : k \in TemplateKeys} THEN "template"
                    ELSE "template_not_found")

cb_template_back(u, cd) ==
    /\ OnCallback(u, cd, "cb_template_back")
    /\ ReplyOnly(u, "templates")

cb_template_cancel(u, cd) ==
    /\ OnCallback(u, cd, "cb_template_cancel")
    /\ ClearSession(u)
    /\ Answer("template_cancelled")
    /\ NoStore
    /\ KeepVia(u)

cmd_style_body(u, d) == EnterState(u, "StyleCopyForm:waiting_for_example", d, "style_prompt")

cmd_style(u, m) ==
    /\ OnMessage(u, m, "cmd_style")
    /\ cmd_style_body(u, sess[u].data)
    /\ KeepVia(u)

process_style_example(u, m) ==
    /\ OnMessage(u, m, "process_style_example")
    /\ IF Lower(StrippedText(m)) = Cancel THEN cmd_cancel_body(u)
       ELSE IF StrippedText(m) = <<>>
       THEN Answer("example_empty") /\ UNCHANGED sess /\ NoStore
       ELSE EnterState(u, "StyleCopyForm:waiting_for_topic",
                       UpdateData(sess[u].data, "style_example" :> S(StrippedText(m))),
                       "ask_style_topic")
    /\ KeepVia(u)

process_style_topic(u, m) ==
    /\ OnMessage(u, m, "process_style_topic")
    /\ IF Lower(StrippedText(m)) = Cancel THEN cmd_cancel_body(u)
       ELSE IF StrippedText(m) = <<>>
       THEN Answer("topic_empty") /\ UNCHANGED sess /\ NoStore
       ELSE \E new_post \in AiTexts :
            /\ NoStore
            /\ IF new_post = <<>>
               THEN ClearSession(u) /\ Answer("style_failed")
               ELSE /\ SetSession(u, Editing,
                           UpdateData(sess[u].data,
                               ("last_generated_post" :> S(new_post))
                               @@ ("last_generated_idea" :> S(StrippedText(m)))
                               @@ ("attached_media" :> NoneV)))
                    /\ Answer("styled_post")
    /\ KeepVia(u)

cmd_search_body(u, d) == EnterState(u, "SearchForm:waiting_for_query", d, "search_prompt")

cmd_search(u, m) ==
    /\ OnMessage(u, m, "cmd_search")
    /\ cmd_search_body(u, sess[u].data)
    /\ KeepVia(u)

\* query in text: text has query as a contiguous run of tokens
Contains(text, query) ==
    \E i \in 0..(Len(text) - Len(query)) : SubSeq(text, i + 1, i + Len(query)) = query

process_search(u, m) ==
    /\ OnMessage(u, m, "process_search")
    /\ LET query == Lower(StrippedText(m))
           user_id == get_user_id_from_context(u, sess[u].data)
       IN IF query = Cancel THEN cmd_cancel_body(u)
          ELSE IF query = <<>>
          THEN Answer("query_empty") /\ UNCHANGED sess /\ NoStore
          ELSE \E rows \in get_user_drafts_full(user_id) :
               LET results == {i \in DOMAIN rows :
                                  \/ Contains(Lower(rows[i].draft_text), query)
                                  \/ Contains(Lower(rows[i].idea_text), query)}
               IN /\ ReadStore(user_id)
                  /\ ClearSession(u)
                  /\ Answer(IF rows = <<>> THEN "nothing_to_search"
                            ELSE IF results = {} THEN "nothing_found" ELSE "search_results")
    /\ KeepVia(u)

-----------------------------------------------------------------------------
(* /start, /help and the reply-keyboard buttons *)

cmd_start(u, m) ==
    /\ OnMessage(u, m, "cmd_start")
    /\ ReadStore(u)
    /\ Answer("welcome")
    /\ UNCHANGED sess
    /\ KeepVia(u)

cmd_help(u, m) ==
    /\ OnMessage(u, m, "cmd_help")
    /\ ReplyOnly(u, "help")

btn_create_post(u, m) ==
    /\ OnMessage(u, m, "btn_create_post")
    /\ ReplyOnly(u, "create_menu")

btn_my_drafts_menu(u, m) ==
    /\ OnMessage(u, m, "btn_my_drafts_menu")
    /\ ReplyOnly(u, "drafts_menu")

btn_ai_tools(u, m) ==
    /\ OnMessage(u, m, "btn_ai_tools")
    /\ ReplyOnly(u, "ai_menu")

btn_planning(u, m) ==
    /\ OnMessage(u, m, "btn_planning")
    /\ ReplyOnly(u, "planning_menu")

btn_search(u, m) ==
    /\ OnMessage(u, m, "btn_search")
    /\ cmd_search_body(u, sess[u].data)
    /\ KeepVia(u)

btn_help(u, m) ==
    /\ OnMessage(u, m, "btn_help")
    /\ ReplyOnly(u, "help")

cb_start_begin(u, cd) ==
    /\ OnCallback(u, cd, "cb_start_begin")
    /\ ReplyOnly(u, "main_menu")

cb_start_tutorial(u, cd) ==
    /\ OnCallback(u, cd, "cb_start_tutorial")
    /\ ReplyOnly(u, "tutorial_1")

cb_tutorial_2(u, cd) ==
    /\ OnCallback(u, cd, "cb_tutorial_2")
    /\ ReplyOnly(u, "tutorial_2")

cb_tutorial_3(u, cd) ==
    /\ OnCallback(u, cd, "cb_tutorial_3")
    /\ ReplyOnly(u, "tutorial_3")

\* "help:back" is taken by cb_help_section, registered first: "section not found"
cb_help_section(u, cd) ==
    /\ OnCallback(u, cd, "cb_help_section")
    /\ ReplyOnly(u, IF CbArg(cd) \in {<<k>> : k \in {"create", "drafts", "ai", "plan", "commands"}}
                    THEN "help_section" ELSE "section_not_found")

\* back to the help screen
cb_help_back(u, cd) ==
    /\ OnCallback(u, cd, "cb_help_back")
    /\ ReplyOnly(u, "help")

-----------------------------------------------------------------------------
(* Media gallery and paging *)

\* show_media_page: the drafts whose payload decodes as media, in listing order
\* the "#idx" lines of show_drafts_page over all its pages, for the listing
\* rows: idx = start_idx + i + 1 runs over the whole listing
DraftsPageItems(rows) == {[number |-> i, id |-> rows[i].id] : i \in DOMAIN rows}

\* the "#idx" lines of process_search: idx comes from enumerate(rows, start=1)
SearchItems(rows, query) ==
    {[number |-> i, id |-> rows[i].id] :
        i \in {j \in DOMAIN rows : \/ Contains(Lower(rows[j].draft_text), query)
                                    \/ Contains(Lower(rows[j].idea_text), query)}}

\* media_rows of show_media_page: the rows that parse as media drafts
MediaRows(rows) == SelectSeq(rows, LAMBDA r : parse_media_draft(r.draft_text).ok)

\* the "#idx" lines of show_media_page over all its pages: idx = start_idx +
\* i + 1 runs over media_rows
MediaPageItems(rows) ==
    {[number |-> i, id |-> MediaRows(rows)[i].id] : i \in DOMAIN MediaRows(rows)}

show_media_page(tid) ==
    /\ ReadStore(tid)
    /\ \E rows \in get_user_drafts_full(tid) :
          Answer(IF \E i \in DOMAIN rows : parse_media_draft(rows[i].draft_text).ok
                 THEN "media_page" ELSE "no_media")

cmd_media_gallery(u, m) ==
    /\ OnMessage(u, m, "cmd_media_gallery")
    /\ show_media_page(get_user_id_from_context(u, sess[u].data))
    /\ UNCHANGED sess
    /\ KeepVia(u)

cb_media_page(u, cd) ==
    /\ OnCallback(u, cd, "cb_media_page")
    /\ IF CbArg(cd) = <<"noop">>
       THEN Answer("none") /\ UNCHANGED sess /\ NoStore
       ELSE /\ IsDigit(CbArg(cd))
            /\ SetSession(u, sess[u].state,
                   UpdateData(sess[u].data, "_user_telegram_id" :> I(u)))
            /\ show_media_page(u)
    /\ KeepVia(u)

cb_drafts_page(u, cd) ==
    /\ OnCallback(u, cd, "cb_drafts_page")
    /\ UNCHANGED sess
    /\ IF CbArg(cd) = <<"noop">>
       THEN Answer("none") /\ NoStore
       ELSE IsDigit(CbArg(cd)) /\ show_drafts_page(u)
    /\ KeepVia(u)

\* cb_media_view sends the media to the user's own chat
\* the bot.send_* calls that show a media draft in the user's own chat
ViewSends(chat, media_info) ==
    LET mtype == media_info.type  fid == media_info.file_id  caption == media_info.caption IN
    CASE mtype \in {<<"photo">>, <<"video">>, <<"document">>, <<"voice">>} ->
            <<Send(chat, mtype[1], fid, caption)>>
      [] mtype = <<"video_note">> ->
            <<Send(chat, "video_note", fid, <<>>)>>
            \o (IF caption # <<>> THEN <<Send(chat, "message", <<>>, caption)>> ELSE <<>>)
      [] OTHER -> <<Send(chat, "message", <<>>,
                        IF caption # <<>> THEN caption ELSE <<"NoCaption">>)>>

cb_media_view(u, cd) ==
    /\ OnCallback(u, cd, "cb_media_view")
    /\ UNCHANGED sess
    /\ LET arg == CbArg(cd) IN
       IF ~IsDigit(arg) THEN Answer("media_bad_callback") /\ NoStore
       ELSE LET found == get_user_draft_by_id(u, ToInt(arg)) IN
            /\ ReadStore(u)
            /\ IF found = {} THEN Answer("media_not_found")
               ELSE LET media_info == parse_media_draft((CHOOSE r \in found : TRUE).draft_text)
                    IN IF ~media_info.ok THEN Answer("not_a_media_draft")
                       ELSE \E res \in {"ok", "error"} :
                            out' = Out(IF res = "ok" THEN "media_shown" ELSE "media_show_failed",
                                       ViewSends(Str(u), media_info), res)
    /\ KeepVia(u)

-----------------------------------------------------------------------------
(* Inline menus: the callback runs the command's handler *)

\* the command handler that menu action a runs, on scratchpad d
RunCommand(u, a, d) ==
    CASE a = "idea" -> EnterState(u, sess[u].state, d, "idea_modes")
      [] a = "draft" -> cmd_draft_body(u, d)
      [] a = "media" -> cmd_save_media_draft_body(u, d)
      [] a = "edit" -> cmd_edit_draft_body(u, d)
      [] a = "delete" -> cmd_delete_draft_body(u, d)
      [] a = "send" -> cmd_send_draft_body(u, d)
      [] a = "rewrite" -> cmd_rewrite_body(u, d)
      [] a = "hashtags" -> cmd_hashtags_body(u, d)
      [] a = "variants" -> cmd_variants_body(u, d)
      [] a = "style" -> cmd_style_body(u, d)
      [] a = "plan" -> cmd_plan_body(u, d)
      [] a = "templates" -> EnterState(u, sess[u].state, d, "templates")
      [] a = "back" -> EnterState(u, sess[u].state, d, "main_menu")
      [] a = "shorten_expand" -> EnterState(u, sess[u].state, d, "shorten_expand_hint")
      [] a = "my_drafts" ->
           /\ sess' = [sess EXCEPT ![u].data = d]
           /\ show_drafts_page(u)
      [] a = "media_gallery" ->
           /\ sess' = [sess EXCEPT ![u].data = d]
           /\ show_media_page(get_user_id_from_context(u, d))
      [] OTHER -> EnterState(u, sess[u].state, d, "none")

cb_menu_action(u, cd) ==
    /\ OnCallback(u, cd, "cb_menu_action")
    /\ RunCommand(u, CbArg(cd)[1],
                  UpdateData(sess[u].data, "_user_telegram_id" :> I(u)))
    /\ KeepVia(u)

cb_quick_action(u, cd) ==
    /\ OnCallback(u, cd, "cb_quick_action")
    /\ LET a == CbArg(cd)[1] IN
       RunCommand(u, IF a \in {"edit", "delete", "send"} THEN a ELSE "none",
                  UpdateData(sess[u].data, "_user_telegram_id" :> I(u)))
    /\ KeepVia(u)

cb_start_send_draft(u, cd) ==
    /\ OnCallback(u, cd, "cb_start_send_draft")
    /\ cb_start_send_draft_body(u)
    /\ KeepVia(u)

cmd_save_media_draft(u, m) ==
    /\ OnMessage(u, m, "cmd_save_media_draft")
    /\ cmd_save_media_draft_body(u, sess[u].data)
    /\ KeepVia(u)

-----------------------------------------------------------------------------
(* Delete confirmations handled concurrently: the dispatcher runs every update
   in its own asyncio task, so two handlers interleave at their awaits *)

NoTask == [pc |-> "idle", u |-> 0, id |-> 0, found |-> FALSE, result |-> "none"]

\* cb_delete_confirm up to the SELECT of delete_user_draft
cb_delete_confirm_select(t, u, cd) ==
    LET arg == SubSeq(cd, 3, Len(cd)) IN
    /\ tasks[t].pc = "idle"
    /\ \A s \in 1..(t - 1) : tasks[s].pc # "idle"
    /\ CbRouteTable[cd] = "cb_delete_confirm"
    /\ IsDigit(arg)
    /\ get_or_create_user(u)
    /\ ev' = CbEv(u, "cb_delete_confirm")
    /\ tasks' = [tasks EXCEPT ![t] = [pc |-> "selected", u |-> u, id |-> ToInt(arg),
                                      found |-> delete_user_draft_select(u, ToInt(arg)),
                                      result |-> "none"]]
    /\ UNCHANGED <<sess, drafts, nextDraftId, clock, out, via, codec>>

\* the rest of cb_delete_confirm: delete and commit, state.clear(), the answer
cb_delete_confirm_commit(t) ==
    LET task == tasks[t]
        success == task.found
    IN /\ task.pc = "selected"
       /\ delete_user_draft_commit(task.found, task.id)
       /\ tasks' = [tasks EXCEPT ![t] = [task EXCEPT !.pc = "done",
                                           !.result = IF success THEN "true" ELSE "false"]]
       /\ ClearSession(task.u)
       /\ out' = OutRef(IF success THEN "draft_deleted" ELSE "delete_failed",
                        IF success THEN "true" ELSE "false", task.id)
       /\ UNCHANGED <<users, nextUserId, nextDraftId, clock, ev, codec>>
       /\ KeepVia(task.u)

-----------------------------------------------------------------------------
(* The card's AI actions handled concurrently: each handler reads the
   scratchpad, awaits the AI call in a worker thread, and then writes the
   post text with state.update_data *)

\* the card's callbacks that await the AI between reading and writing
AiCallbacks == {<<"genpost_shorten">>, <<"genpost_expand">>, <<"genpost_ai_title">>,
                <<"genpost_add_hashtags">>}

\* what the AI answers to a concurrent call: "" is a failed call
TaskAiTexts == {<<>>, <<"x">>, <<"y">>}

\* a card callback up to its await of the AI: data = await state.get_data()
cb_genpost_read(t, u, cd) ==
    /\ tasks[t].pc = "idle"
    /\ \A s \in 1..(t - 1) : tasks[s].pc # "idle"
    /\ cd \in AiCallbacks
    /\ ev' = CbEv(u, CbRouteTable[cd])
    /\ IF ~Truthy(GetOr(sess[u].data, "last_generated_post"))
       THEN /\ Answer("no_post_text_alert")
            /\ tasks' = [tasks EXCEPT ![t] = [pc |-> "done", u |-> u, id |-> 0, found |-> FALSE,
                                              result |-> "alert", kind |-> CbRouteTable[cd],
                                              data |-> sess[u].data]]
       ELSE /\ Answer("working")
            /\ tasks' = [tasks EXCEPT ![t] = [pc |-> "awaiting", u |-> u, id |-> 0, found |-> FALSE,
                                              result |-> "none", kind |-> CbRouteTable[cd],
                                              data |-> sess[u].data]]
    /\ UNCHANGED <<sess, users, nextUserId, drafts, nextDraftId, clock, via, codec>>

\* the post a card callback of kind h writes for AI answer a on post text p
AiNewPost(h, p, a) == IF h = "cb_genpost_add_hashtags" THEN p \o <<"NL", "NL">> \o a ELSE a

\* the rest of the callback on the post text p: the AI's answer arrives,
\* state.update_data(last_generated_post=...) merges it into the scratchpad
\* as it is now
cb_genpost_write_on(t, p) ==
    LET task == tasks[t]
        u == task.u
    IN /\ \E a \in TaskAiTexts :
             IF a = <<>>
             THEN /\ Answer(AiFailReplyOf(task.kind))
                  /\ UNCHANGED sess
                  /\ tasks' = [tasks EXCEPT ![t] = [task EXCEPT !.pc = "done", !.result = "failed"]]
             ELSE /\ Len(AiNewPost(task.kind, p, a)) <= MaxTextLen
                  /\ SetSession(u, sess[u].state,
                         UpdateData(sess[u].data,
                                    "last_generated_post" :> S(AiNewPost(task.kind, p, a))))
                  /\ out' = CardReply(AiOkReplyOf(task.kind), task.data)
                  /\ tasks' = [tasks EXCEPT ![t] = [task EXCEPT !.pc = "done", !.result = "ok"]]
       /\ UNCHANGED <<users, nextUserId, drafts, nextDraftId, clock, ev, codec>>
       /\ KeepVia(u)

\* a callback that would read the post text again after the AI call
cb_genpost_write_fresh(t) ==
    /\ tasks[t].pc = "awaiting"
    /\ cb_genpost_write_on(t, GetOr(sess[tasks[t].u].data, "last_generated_post").v)

\* the callback as written: the post text is the one read before the await
cb_genpost_write(t) ==
    /\ tasks[t].pc = "awaiting"
    /\ cb_genpost_write_on(t, GetOr(tasks[t].data, "last_generated_post").v)

-----------------------------------------------------------------------------
(* First contact handled concurrently: get_or_create_user is a SELECT, an
   await, and an INSERT into a table whose telegram_id column is unique *)

\* create_draft up to the SELECT of get_or_create_user
create_draft_select(t, u) ==
    /\ tasks[t].pc = "idle"
    /\ \A s \in 1..(t - 1) : tasks[s].pc # "idle"
    /\ tasks' = [tasks EXCEPT ![t] = [pc |-> "selected", u |-> u, id |-> 0,
                                      found |-> HasUser(u), result |-> "none"]]
    /\ UNCHANGED <<sess, users, nextUserId, drafts, nextDraftId, clock, ev, out, via, codec>>

\* the rest of create_draft: the INSERT of the user row when the SELECT found
\* none, which the unique column turns down when the row is there by now,
\* the exception leaving the handler; then the INSERT of the draft
create_draft_insert(t) ==
    LET task == tasks[t]
        u == task.u
    IN /\ task.pc = "selected"
       /\ IF ~task.found /\ HasUser(u)
          THEN /\ tasks' = [tasks EXCEPT ![t] = [task EXCEPT !.pc = "done", !.result = "raised"]]
               /\ out' = Out("none", <<>>, "raised")
               /\ UNCHANGED <<users, nextUserId, drafts, nextDraftId, clock>>
          ELSE /\ nextDraftId <= MaxStoreDraftId
               /\ \E ts \in {clock, clock + 1} :
                      create_draft(u, <<"i">>, <<"a">>, ts)
               /\ tasks' = [tasks EXCEPT ![t] = [task EXCEPT !.pc = "done", !.result = "ok"]]
               /\ out' = OutRef("draft_saved", "none", nextDraftId)
       /\ UNCHANGED <<sess, ev, via, codec>>

-----------------------------------------------------------------------------
(* The bot as a state machine *)

\* users who talk to the bot
Actors == {1}

Init ==
    /\ sess = [u \in Users |-> FreshSession]
    /\ users = {}
    /\ drafts = {}
    /\ nextUserId = 1
    /\ nextDraftId = 1
    /\ clock = 0
    /\ ev = NoEv
    /\ out = NoOut
    /\ via = [u \in Users |-> NoVia]
    /\ tasks = [t \in 1..MaxTasks |-> NoTask]
    /\ codec = NoCodec

\* the inputs the model feeds each kind of handler
CmdMsg(c) == TextMsg(<<c>>)
EmptyMsg == TextMsg(<<>>)
WordMsg == TextMsg(<<"a">>)
CancelMsg == TextMsg(Cancel)
WordMsgs == {TextMsg(t) : t \in {<<>>, Cancel, <<"a">>}}
NumberMsgs == {TextMsg(t) : t \in {Cancel, <<"a">>} \cup {Str(i) : i \in 0..MaxDraftId}}
ChannelMsgs == {TextMsg(t) : t \in {Cancel, <<"@c">>}}
MediaMsgs == {TextMsg(Cancel), TextMsg(<<"a">>)}
             \cup {MediaMsg(a, <<"c">>) : a \in Attachments}

\* the drafts sequence has ids left for the dialog specifications
Room == nextDraftId <= MaxDraftId
IdCallbacks(name, n) == {<<name, ":">> \o a : a \in IdArgs(n)}

SendSteps(u) ==
    \/ cmd_send_draft(u, CmdMsg("/send_draft"))
    \/ \E m \in NumberMsgs : process_send_draft_number(u, m)
    \/ \E m \in ChannelMsgs : process_send_draft_channel(u, m)
    \/ cb_start_send_draft(u, <<"start_send_draft">>)

EditSteps(u) ==
    \/ cmd_edit_draft(u, CmdMsg("/edit_draft"))
    \/ \E m \in NumberMsgs : process_edit_draft_id(u, m)
    \/ \E m \in WordMsgs : process_edit_draft_text(u, m)

DeleteSteps(u) ==
    \/ cmd_delete_draft(u, CmdMsg("/delete_draft"))
    \/ \E m \in NumberMsgs : process_delete_draft_id(u, m)
    \/ \E m \in WordMsgs : process_delete_draft_confirm(u, m)
    \/ \E cd \in IdCallbacks("delete_confirm", MaxDraftId) : cb_delete_confirm(u, cd)
    \/ cb_delete_cancel(u, <<"delete_cancel">>)

MediaSteps(u) ==
    \/ cmd_save_media_draft(u, CmdMsg("/save_media_draft"))
    \/ \E m \in MediaMsgs : (m.media # NoMedia => Room) /\ process_save_media_draft(u, m)
    \/ cmd_media_gallery(u, CmdMsg("/media"))
    \/ \E cd \in {<<"media_page", ":", a>> : a \in {"0", "noop"}} : cb_media_page(u, cd)
    \/ \E cd \in IdCallbacks("media_view", MaxDraftId) : cb_media_view(u, cd)
    \/ \E cd \in IdCallbacks("media_send", MaxDraftId) : cb_media_send(u, cd)
    \/ \E cd \in IdCallbacks("media_del", MaxDraftId) : cb_media_del(u, cd)

ListSteps(u) ==
    \/ cmd_my_drafts(u, CmdMsg("/my_drafts"))
    \/ \E cd \in {<<"drafts_page", ":", a>> : a \in {"0", "noop"}} : cb_drafts_page(u, cd)
    \/ \E cd \in {<<"quick", ":", a>> : a \in {"edit", "delete", "send"}} : cb_quick_action(u, cd)

Next ==
    \E u \in Actors :
        \/ cmd_cancel(u, CancelMsg)
        \/ SendSteps(u)
        \/ EditSteps(u)
        \/ DeleteSteps(u)
        \/ MediaSteps(u)
        \/ ListSteps(u)

Spec == Init /\ [][Next]_vars

-----------------------------------------------------------------------------
(* Composing posts: /rewrite, the generated-post card and the send flow *)

GenpostSteps(u) ==
    \/ cmd_rewrite(u, CmdMsg("/rewrite"))
    \/ \E m \in WordMsgs : process_rewrite(u, m)
    \/ Room /\ cb_save_generated_post(u, <<"save_generated_post">>)
    \/ cb_close_generated_post(u, <<"close_generated_post">>)
    \/ cb_genpost_close(u, <<"genpost_close">>)
    \/ Room /\ cb_genpost_save(u, <<"genpost_save">>)
    \/ cb_genpost_send(u, <<"genpost_send">>)
    \/ cb_genpost_edit_menu(u, <<"genpost_edit_menu">>)
    \/ cb_genpost_back(u, <<"genpost_back">>)
    \/ cb_genpost_ai_edit(u, <<"genpost_ai_edit">>)
    \/ cb_genpost_ai_title(u, <<"genpost_ai_title">>)
    \/ cb_genpost_shorten(u, <<"genpost_shorten">>)
    \/ cb_genpost_expand(u, <<"genpost_expand">>)
    \/ cb_genpost_add_hashtags(u, <<"genpost_add_hashtags">>)
    \/ cb_genpost_attach_media(u, <<"genpost_attach_media">>)
    \/ \E m \in WordMsgs : process_genpost_ai_edit(u, m)
    \/ \E m \in MediaMsgs : process_genpost_attach_media(u, m)

NextCompose ==
    \E u \in Actors :
        \/ cmd_cancel(u, CancelMsg)
        \/ SendSteps(u)
        \/ GenpostSteps(u)

SpecCompose == Init /\ [][NextCompose]_vars

-----------------------------------------------------------------------------
(* One user taps the card's AI buttons faster than the AI answers *)

RaceSteps(u) ==
    \/ cmd_rewrite(u, CmdMsg("/rewrite"))
    \/ process_rewrite(u, WordMsg)
    \/ cb_genpost_attach_media(u, <<"genpost_attach_media">>)
    \/ \E m \in MediaMsgs : process_genpost_attach_media(u, m)
    \/ cb_genpost_close(u, <<"genpost_close">>)
    \/ \E t \in 1..MaxTasks, cd \in AiCallbacks : cb_genpost_read(t, u, cd)

NextRace ==
    \/ \E u \in Actors : RaceSteps(u)
    \/ \E t \in 1..MaxTasks : cb_genpost_write(t)

SpecRace == Init /\ [][NextRace]_vars

-----------------------------------------------------------------------------
(* Building drafts step by step: /draft and /idea *)

\* what a user sends at the builder's confirm step
ConfirmMsgs == {TextMsg(t) : t \in {<<"+">>, <<" ", "+", " ">>, <<"+", "+">>, <<"a">>, <<>>, Cancel}}
               \cup {MediaMsg(a, <<"c">>) : a \in Attachments}

BuilderSteps(u) ==
    \/ cmd_draft(u, CmdMsg("/draft"))
    \/ \E m \in ConfirmMsgs : process_draft_confirm(u, m)
    \/ \E m \in WordMsgs : process_draft_idea(u, m)
    \/ \E m \in WordMsgs : process_draft_title(u, m)
    \/ \E m \in WordMsgs : process_draft_body(u, m)
    \/ \E m \in WordMsgs \cup {TextMsg(<<"-">>)} : Room /\ process_draft_conclusion(u, m)
    \/ cb_draft_cancel(u, <<"draft_cancel">>)
    \/ (sess[u].state = "DraftForm:conclusion" => Room)
          /\ cb_draft_skip_conclusion(u, <<"draft_skip_conclusion">>)

IdeaSteps(u) ==
    \/ cmd_idea(u, CmdMsg("/idea"))
    \/ cb_idea_mode_channel(u, <<"idea_mode", ":", "channel">>)
    \/ cb_idea_mode_own(u, <<"idea_mode", ":", "own">>)
    \/ \E m \in WordMsgs : process_profile(u, m)
    \/ \E m \in WordMsgs : process_own_idea_for_idea(u, m)
    \/ cb_ownidea_to_draft(u, <<"ownidea_to_draft">>)
    \/ cb_ownidea_self(u, <<"ownidea_self">>)
    \/ cb_ownidea_generate_post(u, <<"ownidea_generate_post">>)

NextBuilder ==
    \E u \in Actors :
        \/ cmd_cancel(u, CancelMsg)
        \/ BuilderSteps(u)

SpecBuilder == Init /\ [][NextBuilder]_vars

-----------------------------------------------------------------------------
(* The builder entered from a captured idea, next to the regular builder *)

\* what the user can send as an own idea: "i" is never typed into the builder
OwnIdeaMsgs == {TextMsg(t) : t \in {<<>>, <<"i">>}}

OwnIdeaSteps(u) ==
    \/ cmd_idea(u, CmdMsg("/idea"))
    \/ cb_idea_mode_own(u, <<"idea_mode", ":", "own">>)
    \/ \E m \in OwnIdeaMsgs : process_own_idea_for_idea(u, m)
    \/ cb_ownidea_to_draft(u, <<"ownidea_to_draft">>)

\* the regular builder, one word for each field
RegularBuilderSteps(u) ==
    \/ cmd_draft(u, CmdMsg("/draft"))
    \/ process_draft_confirm(u, TextMsg(<<"+">>))
    \/ process_draft_idea(u, TextMsg(<<"a">>))
    \/ \E m \in {TextMsg(<<>>), TextMsg(<<"a">>)} : process_draft_title(u, m)
    \/ process_draft_body(u, TextMsg(<<"a">>))
    \/ \E m \in {TextMsg(<<"a">>), TextMsg(<<"-">>)} : Room /\ process_draft_conclusion(u, m)

NextOwnIdea ==
    \E u \in Actors :
        \/ cmd_cancel(u, CancelMsg)
        \/ OwnIdeaSteps(u)
        \/ RegularBuilderSteps(u)
        \/ cb_menu_action(u, <<"menu", ":", "draft">>)
        \/ cb_draft_cancel(u, <<"draft_cancel">>)
        \/ (sess[u].state = "DraftForm:conclusion" => Room)
              /\ cb_draft_skip_conclusion(u, <<"draft_skip_conclusion">>)

SpecOwnIdea == Init /\ [][NextOwnIdea]_vars

-----------------------------------------------------------------------------
(* The paths that persist a draft, and the consumers that decode it *)

EncodingSteps(u) ==
    \/ cmd_save_media_draft(u, CmdMsg("/save_media_draft"))
    \/ Room /\ process_save_media_draft(u, MediaMsg(<<"photo", "f1">>, <<"c">>))
    \/ cmd_edit_draft(u, CmdMsg("/edit_draft"))
    \/ \E m \in NumberMsgs : process_edit_draft_id(u, m)
    \/ \E m \in {TextMsg(<<"a">>), TextMsg(MediaLookalike)} : process_edit_draft_text(u, m)
    \/ cmd_my_drafts(u, CmdMsg("/my_drafts"))
    \/ cmd_media_gallery(u, CmdMsg("/media"))
    \/ \E cd \in IdCallbacks("media_view", MaxDraftId) : cb_media_view(u, cd)

NextEncoding ==
    \E u \in Actors :
        \/ cmd_cancel(u, CancelMsg)
        \/ EncodingSteps(u)
        \/ RegularBuilderSteps(u)

SpecEncoding == Init /\ [][NextEncoding]_vars

-----------------------------------------------------------------------------
(* The dispatcher offered every message and callback of the model in every   *)
(* state of the send dialog                                                  *)

\* message m of user u handed to the dispatcher
RoutedMessage(u, m) ==
    \/ btn_create_post(u, m)
    \/ btn_my_drafts_menu(u, m)
    \/ btn_ai_tools(u, m)
    \/ btn_planning(u, m)
    \/ btn_search(u, m)
    \/ btn_help(u, m)
    \/ cmd_send_draft(u, m)
    \/ process_send_draft_number(u, m)
    \/ process_send_draft_channel(u, m)
    \/ cmd_save_media_draft(u, m)
    \/ (m.media # NoMedia => Room) /\ process_save_media_draft(u, m)
    \/ cmd_cancel(u, m)
    \/ unhandled_message(u, m)

\* callback query cd of user u handed to the dispatcher
RoutedCallback(u, cd) ==
    \/ cb_start_send_draft(u, cd)
    \/ cb_delete_cancel(u, cd)
    \/ cb_help_section(u, cd)
    \/ unhandled_callback(u, cd)

\* the texts offered: the commands and buttons of these handlers, dialog input
RoutingMsgs ==
    {m \in Msgs : m.media # NoMedia \/ m.text \in ContentTexts
                   \/ MsgRoute(m, Idle) \in {"btn_create_post", "btn_my_drafts_menu",
                          "btn_ai_tools", "btn_planning", "btn_search", "btn_help",
                          "cmd_send_draft", "cmd_save_media_draft", "cmd_cancel"}}

NextRouting ==
    \E u \in Actors :
        \/ \E m \in RoutingMsgs : RoutedMessage(u, m)
        \/ \E cd \in {<<"start_send_draft">>, <<"delete_cancel">>,
                        <<"help", ":", "create">>, <<"help", ":", "back">>,
                        <<"draft_act", ":", "send", ":", "1">>} : RoutedCallback(u, cd)

SpecRouting == Init /\ [][NextRouting]_vars

-----------------------------------------------------------------------------
(* The dialogs over a store whose calls can fail.  No handler catches the    *)
(* exception of a store call: it leaves the handler at the call, aiogram     *)
(* logs it, and what the handler does after the call is not done.            *)

\* the flow ended on the failure: context cleared, a failure reported
store_call_aborts(u, tid) ==
    /\ ClearSession(u)
    /\ Answer("storage_failed")
    /\ NoStore
    /\ KeepVia(u)

\* a store function called for telegram user tid raises, in get_or_create_user
\* or in its own statement after the user row was committed
store_call_raises(u, tid) ==
    /\ UNCHANGED sess
    /\ out' = Out("none", <<>>, "raised")
    /\ UNCHANGED <<users, nextUserId>> \/ get_or_create_user(tid)
    /\ UNCHANGED <<drafts, nextDraftId, clock>>
    /\ KeepVia(u)

\* the session block of process_edit_draft_text raises, at the select or the commit
session_raises(u) ==
    /\ UNCHANGED sess
    /\ out' = Out("none", <<>>, "raised")
    /\ NoStore
    /\ KeepVia(u)

\* finalize_draft with create_draft raising
process_draft_conclusion_raises(u, m) ==
    /\ OnMessage(u, m, "process_draft_conclusion")
    /\ store_call_raises(u, get_user_id_from_context(u, sess[u].data))

cb_draft_skip_conclusion_raises(u, cd) ==
    /\ OnCallback(u, cd, "cb_draft_skip_conclusion")
    /\ sess[u].state = "DraftForm:conclusion"
    /\ store_call_raises(u, get_user_id_from_context(u, sess[u].data))

\* process_save_media_draft with create_draft raising
process_save_media_draft_raises(u, m) ==
    /\ OnMessage(u, m, "process_save_media_draft")
    /\ Lower(StrippedText(m)) # Cancel
    /\ MediaOf(m) # NoMedia
    /\ store_call_raises(u, get_user_id_from_context(u, sess[u].data))

\* process_edit_draft_id with get_user_drafts_full raising
process_edit_draft_id_raises(u, m) ==
    /\ OnMessage(u, m, "process_edit_draft_id")
    /\ Lower(StrippedText(m)) # Cancel
    /\ IsDigit(StrippedText(m))
    /\ store_call_raises(u, get_user_id_from_context(u, sess[u].data))

\* process_edit_draft_text with its session block raising
process_edit_draft_text_raises(u, m) ==
    /\ OnMessage(u, m, "process_edit_draft_text")
    /\ StrippedText(m) # <<>>
    /\ Get(sess[u].data, "draft_id").t # "none"
    /\ session_raises(u)

StoreFailureSteps(u) ==
    \/ \E m \in {WordMsg, TextMsg(<<"-">>)} : process_draft_conclusion_raises(u, m)
    \/ cb_draft_skip_conclusion_raises(u, <<"draft_skip_conclusion">>)
    \/ process_save_media_draft_raises(u, MediaMsg(<<"photo", "f1">>, <<"c">>))
    \/ process_edit_draft_id_raises(u, TextMsg(Str(1)))
    \/ process_edit_draft_text_raises(u, WordMsg)

PersistingSteps(u) ==
    \/ cmd_save_media_draft(u, CmdMsg("/save_media_draft"))
    \/ Room /\ process_save_media_draft(u, MediaMsg(<<"photo", "f1">>, <<"c">>))
    \/ cmd_edit_draft(u, CmdMsg("/edit_draft"))
    \/ \E m \in {WordMsg, TextMsg(Str(1))} : process_edit_draft_id(u, m)
    \/ \E m \in {EmptyMsg, WordMsg} : process_edit_draft_text(u, m)
    \/ (sess[u].state = "DraftForm:conclusion" => Room)
          /\ cb_draft_skip_conclusion(u, <<"draft_skip_conclusion">>)

NextStoreFailure ==
    \E u \in Actors :
        \/ cmd_cancel(u, CancelMsg)
        \/ RegularBuilderSteps(u)
        \/ PersistingSteps(u)
        \/ StoreFailureSteps(u)

SpecStoreFailure == Init /\ [][NextStoreFailure]_vars

-----------------------------------------------------------------------------
(* The dialogs fed with input they cannot use *)

InvalidInputSteps(u) ==
    \/ cmd_save_media_draft(u, CmdMsg("/save_media_draft"))
    \/ \E m \in {EmptyMsg, WordMsg, MediaMsg(<<"photo", "f1">>, <<"c">>)} :
          (m.media # NoMedia => Room) /\ process_save_media_draft(u, m)
    \/ cmd_send_draft(u, CmdMsg("/send_draft"))
    \/ \E m \in {EmptyMsg, WordMsg, TextMsg(Str(1))} : process_send_draft_number(u, m)
    \/ \E m \in {EmptyMsg, TextMsg(<<"@c">>)} : process_send_draft_channel(u, m)
    \/ cmd_edit_draft(u, CmdMsg("/edit_draft"))
    \/ \E m \in {EmptyMsg, WordMsg, TextMsg(Str(1))} : process_edit_draft_id(u, m)
    \/ \E m \in {EmptyMsg, WordMsg} : process_edit_draft_text(u, m)
    \/ cmd_idea(u, CmdMsg("/idea"))
    \/ cb_idea_mode_channel(u, <<"idea_mode", ":", "channel">>)
    \/ \E m \in {EmptyMsg, WordMsg} : process_profile(u, m)
    \/ cmd_draft(u, CmdMsg("/draft"))
    \/ process_draft_confirm(u, TextMsg(<<"+">>))
    \/ \E m \in {EmptyMsg, WordMsg} : process_draft_idea(u, m)
    \/ \E m \in {EmptyMsg, WordMsg} : process_draft_title(u, m)

NextInvalidInput ==
    \E u \in Actors :
        \/ cmd_cancel(u, CancelMsg)
        \/ InvalidInputSteps(u)

SpecInvalidInput == Init /\ [][NextInvalidInput]_vars

-----------------------------------------------------------------------------
(* The media codec on its own: every kind, reference and caption *)

\* the kinds process_save_media_draft recognises
MediaKinds == {"photo", "video", "video_note", "document", "voice"}
\* file ids: one token each, never holding a "|"
MediaRefs == {"f1", "f2"}
\* what a caption is made of: a word, a space, the separator, the prefix
CaptionToks == {"c", " ", "|", "MEDIA"}
\* the longest caption fed to the codec
MaxCaptionLen == 3
CodecCaptions == UNION {[1..n -> CaptionToks] : n \in 0..MaxCaptionLen}

InitCodec ==
    /\ sess = [u \in Users |-> FreshSession]
    /\ users = {}
    /\ drafts = {}
    /\ nextUserId = 1
    /\ nextDraftId = 1
    /\ clock = 0
    /\ ev = NoEv
    /\ out = NoOut
    /\ via = [u \in Users |-> NoVia]
    /\ tasks = [t \in 1..MaxTasks |-> NoTask]
    /\ \E k \in MediaKinds, r \in MediaRefs, c \in CodecCaptions :
          codec = [NoCodec EXCEPT !.pc = "fields", !.kind = k, !.ref = r, !.caption = c]

NextCodec == EncodeMedia \/ DecodeMedia

SpecCodec == InitCodec /\ [][NextCodec]_vars

-----------------------------------------------------------------------------
(* The one-shot tools, the menus and the help screens *)

ToolSteps(u) ==
    \/ cmd_hashtags(u, CmdMsg("/hashtags"))
    \/ \E m \in WordMsgs : process_hashtags(u, m)
    \/ cmd_variants(u, CmdMsg("/variants"))
    \/ \E m \in WordMsgs : process_variants(u, m)
    \/ cmd_plan(u, CmdMsg("/plan"))
    \/ \E m \in WordMsgs : process_plan_topic(u, m)
    \/ \E cd \in {<<"plan_period", ":", a>> : a \in {"week", "month"}} : cb_plan_period(u, cd)
    \/ cb_plan_cancel(u, <<"plan_cancel">>)
    \/ cmd_templates(u, CmdMsg("/templates"))
    \/ \E cd \in {<<"template", ":", a>> : a \in {"news", "none"}} : cb_template_select(u, cd)
    \/ cb_template_back(u, <<"template_back">>)
    \/ cb_template_cancel(u, <<"template_cancel">>)
    \/ cmd_style(u, CmdMsg("/style"))
    \/ \E m \in WordMsgs : process_style_example(u, m)
    \/ \E m \in WordMsgs : process_style_topic(u, m)
    \/ cmd_search(u, CmdMsg("/search"))
    \/ \E m \in WordMsgs : process_search(u, m)

NavSteps(u) ==
    \/ cmd_start(u, CmdMsg("/start"))
    \/ cmd_help(u, CmdMsg("/help"))
    \/ btn_create_post(u, CmdMsg("BTN_CREATE"))
    \/ btn_my_drafts_menu(u, CmdMsg("BTN_DRAFTS"))
    \/ btn_ai_tools(u, CmdMsg("BTN_AI"))
    \/ btn_planning(u, CmdMsg("BTN_PLAN"))
    \/ btn_search(u, CmdMsg("BTN_SEARCH"))
    \/ btn_help(u, CmdMsg("BTN_HELP"))
    \/ cb_start_begin(u, <<"start", ":", "begin">>)
    \/ cb_start_tutorial(u, <<"start", ":", "tutorial">>)
    \/ cb_tutorial_2(u, <<"tutorial", ":", "2">>)
    \/ cb_tutorial_3(u, <<"tutorial", ":", "3">>)
    \/ \E cd \in {<<"help", ":", a>> : a \in {"create", "back"}} : cb_help_section(u, cd)
    \/ \E cd \in {c \in Callbacks : StartsWith(c, <<"menu", ":">>)} : cb_menu_action(u, cd)

NextTools ==
    \E u \in Actors :
        \/ cmd_cancel(u, CancelMsg)
        \/ IdeaSteps(u)
        \/ ToolSteps(u)
        \/ NavSteps(u)

SpecTools == Init /\ [][NextTools]_vars

-----------------------------------------------------------------------------
(* Two users side by side: each saves media drafts of their own and both tap
   buttons and type positions that may name the other user's drafts *)

\* what user u writes: captions and replacement texts tell whose they are
OwnMediaMsg(u) == MediaMsg(<<"photo", "f1">>, Str(u))

OwnerSteps(u) ==
    \/ cmd_save_media_draft(u, CmdMsg("/save_media_draft"))
    \/ Room /\ process_save_media_draft(u, OwnMediaMsg(u))
    \/ \E cd \in IdCallbacks("media_view", MaxDraftId) : cb_media_view(u, cd)
    \/ \E cd \in IdCallbacks("media_send", MaxDraftId) : cb_media_send(u, cd)
    \/ \E cd \in IdCallbacks("media_del", MaxDraftId) : cb_media_del(u, cd)
    \/ \E cd \in IdCallbacks("delete_confirm", MaxDraftId) : cb_delete_confirm(u, cd)
    \/ cmd_edit_draft(u, CmdMsg("/edit_draft"))
    \/ \E m \in NumberMsgs : process_edit_draft_id(u, m)
    \/ process_edit_draft_text(u, TextMsg(Str(u)))
    \/ process_send_draft_channel(u, TextMsg(<<"@c">>))
    \/ cmd_my_drafts(u, CmdMsg("/my_drafts"))

NextOwners == \E u \in Users : OwnerSteps(u)

SpecOwners == Init /\ [][NextOwners]_vars

-----------------------------------------------------------------------------
(* The store under concurrent updates: drafts are created, listed and deleted
   for both users, and delete confirmations interleave *)

\* the drafts sequence has ids left for the store specification
StoreRoom == nextDraftId <= MaxStoreDraftId

\* a handler reaches create_draft
StoreCreate(u) ==
    /\ StoreRoom
    /\ \E ts \in {clock, clock + 1} : create_draft(u, <<"i">>, <<"a">>, ts)
    /\ out' = OutRef("draft_saved", "none", nextDraftId)
    /\ UNCHANGED <<sess, ev, via, tasks, codec>>

NextStore ==
    \/ \E u \in Users : StoreCreate(u)
    \/ \E u \in Users : cmd_my_drafts(u, CmdMsg("/my_drafts"))
    \/ \E t \in 1..MaxTasks, u \in Users, cd \in IdCallbacks("delete_confirm", MaxStoreDraftId) :
          cb_delete_confirm_select(t, u, cd)
    \/ \E t \in 1..MaxTasks : cb_delete_confirm_commit(t)

SpecStore == Init /\ [][NextStore]_vars

-----------------------------------------------------------------------------
(* Every flow run to its end, one input for each step *)

TerminalSteps(u) ==
    \/ cmd_save_media_draft(u, CmdMsg("/save_media_draft"))
    \/ Room /\ process_save_media_draft(u, MediaMsg(<<"photo", "f1">>, <<"c">>))
    \/ cmd_edit_draft(u, CmdMsg("/edit_draft"))
    \/ process_edit_draft_id(u, TextMsg(Str(1)))
    \/ process_edit_draft_text(u, WordMsg)
    \/ cmd_delete_draft(u, CmdMsg("/delete_draft"))
    \/ process_delete_draft_id(u, TextMsg(Str(1)))
    \/ \E cd \in IdCallbacks("delete_confirm", MaxDraftId) : cb_delete_confirm(u, cd)
    \/ cb_delete_cancel(u, <<"delete_cancel">>)
    \/ cmd_send_draft(u, CmdMsg("/send_draft"))
    \/ process_send_draft_number(u, TextMsg(Str(1)))
    \/ \E m \in {TextMsg(<<"@c">>), WordMsg} : process_send_draft_channel(u, m)
    \/ cmd_search(u, CmdMsg("/search"))
    \/ \E m \in {WordMsg, TextMsg(<<"i">>)} : process_search(u, m)
    \/ cmd_rewrite(u, CmdMsg("/rewrite"))
    \/ process_rewrite(u, WordMsg)
    \/ Room /\ cb_save_generated_post(u, <<"save_generated_post">>)
    \/ cb_close_generated_post(u, <<"close_generated_post">>)
    \/ cb_genpost_close(u, <<"genpost_close">>)
    \/ Room /\ cb_genpost_save(u, <<"genpost_save">>)
    \/ cb_genpost_send(u, <<"genpost_send">>)
    \/ (sess[u].state = "DraftForm:conclusion" => Room)
          /\ cb_draft_skip_conclusion(u, <<"draft_skip_conclusion">>)

NextTerminal ==
    \E u \in Actors :
        \/ RegularBuilderSteps(u)
        \/ TerminalSteps(u)

SpecTerminal == Init /\ [][NextTerminal]_vars

-----------------------------------------------------------------------------
(* /my_drafts sent in the middle of the send, edit and delete dialogs *)

MyDraftsMsg == CmdMsg("/my_drafts")

\* a number, a word or /my_drafts
NumberOrListMsgs == NumberMsgs \cup {MyDraftsMsg}

ListingInFlowSteps(u) ==
    \/ cmd_save_media_draft(u, CmdMsg("/save_media_draft"))
    \/ Room /\ process_save_media_draft(u, MediaMsg(<<"photo", "f1">>, <<"c">>))
    \/ cmd_send_draft(u, CmdMsg("/send_draft"))
    \/ cmd_edit_draft(u, CmdMsg("/edit_draft"))
    \/ cmd_delete_draft(u, CmdMsg("/delete_draft"))
    \/ \E m \in NumberOrListMsgs : process_send_draft_number(u, m)
    \/ \E m \in NumberOrListMsgs : process_edit_draft_id(u, m)
    \/ \E m \in NumberOrListMsgs : process_delete_draft_id(u, m)
    \/ cmd_my_drafts(u, MyDraftsMsg)
    \/ cmd_cancel(u, CancelMsg)

NextListingInFlow == \E u \in Actors : ListingInFlowSteps(u)

SpecListingInFlow == Init /\ [][NextListingInFlow]_vars

-----------------------------------------------------------------------------
(* New users whose first handlers run side by side *)

NextProvision ==
    \/ \E t \in 1..MaxTasks, u \in Users : create_draft_select(t, u)
    \/ \E t \in 1..MaxTasks : create_draft_insert(t)
    \/ \E u \in Users : StoreCreate(u)
    \/ \E u \in Users : cmd_my_drafts(u, CmdMsg("/my_drafts"))

SpecProvision == Init /\ [][NextProvision]_vars

-----------------------------------------------------------------------------
(* Properties of the store *)

\* the rows of drafts that belong to telegram user u
LiveDraftsOf(u) == {d \in drafts : \E r \in users : r.telegram_id = u /\ r.id = d.user_id}

\* a sequence without its k-th element
RemoveAt(L, k) == [i \in 1..(Len(L) - 1) |-> IF i < k THEN L[i] ELSE L[i + 1]]

\* the positions at which listing L holds the row with this id
PositionsOf(L, id) == {i \in DOMAIN L : L[i].id = id}

\* C4: of two delete confirmations handled concurrently for the same draft of
\* the same user, a draft that was there when the first one looked, exactly one
\* returns true and the other returns false.
C4_ExactlyOneDeleteSucceeds ==
    \A s, t \in 1..MaxTasks :
        (/\ s # t
         /\ tasks[s].pc = "done" /\ tasks[t].pc = "done"
         /\ tasks[s].u = tasks[t].u /\ tasks[s].id = tasks[t].id
         /\ (tasks[s].found \/ tasks[t].found))
        => (tasks[s].result = "true") # (tasks[t].result = "true")

\* C7: whatever was created and deleted, every full listing of a user has as
\* many entries as the user has live drafts, holds only those drafts, and
\* distinct positions resolve to distinct durable ids.
C7_ListingMatchesLiveDrafts ==
    \A u \in Users :
        /\ get_user_drafts_full(u) # {}
        /\ \A L \in get_user_drafts_full(u) :
              /\ Len(L) = Cardinality(LiveDraftsOf(u))
              /\ DOMAIN L = 1..Cardinality(LiveDraftsOf(u))
              /\ \A i \in DOMAIN L : L[i] \in LiveDraftsOf(u)
              /\ \A i, j \in DOMAIN L : i # j => L[i].id # L[j].id

\* a user who has two drafts left after one of theirs was deleted, just listed
C7_Witness ==
    \E u \in Users :
        /\ Cardinality(LiveDraftsOf(u)) = 2
        /\ \E t \in 1..MaxTasks : tasks[t].u = u /\ tasks[t].result = "true"
        /\ ev.u = u /\ out.reply = "drafts_page"

\* C8: a step that deletes the draft at position k of a listing of N drafts
\* leaves N-1 drafts, the drafts below k where they were and the drafts above
\* k one position lower.
C8_DeleteShiftsLaterPositionsDown ==
    [][\A u \in Users : \A r \in LiveDraftsOf(u) :
          (drafts' = drafts \ {r} /\ users' = users) =>
              \A L \in get_user_drafts_full(u) : \A L2 \in get_user_drafts_full(u)' :
                  \A k \in PositionsOf(L, r.id) : L2 = RemoveAt(L, k)]_vars

\* C9: a user's listing is the same every time it is fetched from the same
\* store contents, drafts with equal creation timestamps included.
C9_ListingIsDeterministic ==
    \A u \in Users : \A L1, L2 \in get_user_drafts_full(u) : L1 = L2

-----------------------------------------------------------------------------
(* Properties of the dialogs *)

\* the handlers that read a message as a draft position
NumberHandlers ==
    {"process_send_draft_number", "process_edit_draft_id", "process_delete_draft_id"}

\* a row with this durable id is in this set of rows
IdIn(id, rows) == \E r \in rows : r.id = id

\* key k of the scratchpad d holds the text /cancel
HoldsCancel(d, k) == k \in DOMAIN d /\ d[k].t = "str" /\ d[k].v = Cancel

\* C1: in every state but idle, handling a message whose text is /cancel
\* leaves the session idle and answers with the cancellation acknowledgement.
C1_CancelLeavesEveryState ==
    [][\A u \in Users :
          (ev'.kind = "message" /\ ev'.cancel /\ ev'.u = u /\ sess[u].state # Idle)
          => (sess'[u].state = Idle /\ out'.reply = "dialog_cancelled")]_vars

\* C2: handling a /cancel message never writes the text /cancel into a
\* scratchpad field, never creates a draft or replaces a stored payload, and
\* never sends anything to a channel named /cancel.
C2_CancelIsNeverFlowInput ==
    [][\A u \in Users :
          (ev'.kind = "message" /\ ev'.cancel /\ ev'.u = u)
          => /\ \A k \in DOMAIN sess'[u].data :
                   HoldsCancel(sess'[u].data, k) => HoldsCancel(sess[u].data, k)
             /\ drafts' \subseteq drafts
             /\ \A i \in DOMAIN out'.sent : out'.sent[i].channel # Cancel]_vars

\* C3: what the channel step sends is the payload of the stored draft when
\* the channel-collection state was entered by picking a draft by position,
\* and the generated post when it was entered from the generated-post card.
C3_SendsWhatWasSelected ==
    [][\A u \in Users :
          (/\ ev'.kind = "message" /\ ev'.u = u
           /\ sess[u].state = WaitChannel
           /\ out'.sent # <<>>)
          => \A i \in DOMAIN out'.sent :
                LET channel == out'.sent[i].channel IN
                /\ via[u].src = "draft" => out'.sent = DraftSends(channel, via[u].text)
                /\ via[u].src = "genpost" =>
                      out'.sent = IF via[u].media = NoMedia
                                  THEN <<Send(channel, "message", <<>>, via[u].text)>>
                                  ELSE GenpostSends(channel, via[u].media, via[u].text)]_vars

\* C5: when the draft picked at the number step is gone by the time of the
\* terminal step, the terminal step deletes nothing, updates nothing and
\* sends nothing.
C5_TerminalStepRevalidates ==
    [][\A u \in Users :
          /\ (/\ ev'.kind = "callback" /\ ev'.u = u
              /\ sess[u].state = "DeleteDraftForm:waiting_for_confirm"
              /\ Get(sess[u].data, "draft_id").t = "int"
              /\ ~IdIn(Get(sess[u].data, "draft_id").v, drafts)
              /\ out'.ref = Get(sess[u].data, "draft_id").v)
             => (drafts' = drafts /\ out'.reply # "draft_deleted")
          /\ (/\ ev'.kind = "message" /\ ev'.u = u
              /\ sess[u].state = "EditDraftForm:waiting_for_text"
              /\ Get(sess[u].data, "draft_id").t = "int"
              /\ ~IdIn(Get(sess[u].data, "draft_id").v, drafts))
             => (drafts' = drafts /\ out'.reply # "draft_updated")
          /\ (/\ ev'.kind = "message" /\ ev'.u = u
              /\ sess[u].state = WaitChannel
              /\ via[u].src = "draft"
              /\ ~IdIn(via[u].id, drafts))
             => out'.sent = <<>>]_vars

\* the listings of the drafts user u has right now, oldest first
FreshListings(u) ==
    {L \in [1..Cardinality(LiveDraftsOf(u)) -> LiveDraftsOf(u)] :
        /\ \A i, j \in DOMAIN L : i # j => L[i] # L[j]
        /\ \A i, j \in DOMAIN L : i < j => L[i].created_at <= L[j].created_at}

\* the draft d is what the step into state st selected for user u
Selected(u, st, d) ==
    CASE st = WaitChannel ->
            /\ Get(sess'[u].data, "draft_text") = S(d.draft_text)
            /\ via'[u] = Via("draft", d.id, d.draft_text, NoMedia)
      [] OTHER -> Get(sess'[u].data, "draft_id") = I(d.id)

\* C6: a message that makes a number step select a draft selects the draft
\* at the position the message gave, in a listing of the drafts stored when
\* the message is handled; a position outside that listing selects nothing.
C6_PositionResolvedOnFreshListing ==
    [][\A u \in Users :
          (/\ ev'.h \in NumberHandlers /\ ev'.u = u
           /\ sess'[u] # sess[u])
          => \/ ev'.cancel /\ sess'[u].state = Idle
             \/ /\ sess'[u].state \in {WaitChannel, "EditDraftForm:waiting_for_text",
                                       "DeleteDraftForm:waiting_for_confirm"}
                /\ Get(sess'[u].data, "draft_number").t = "int"
                /\ \E L \in FreshListings(u) :
                      /\ Get(sess'[u].data, "draft_number").v \in 1..Len(L)
                      /\ Selected(u, sess'[u].state,
                                  L[Get(sess'[u].data, "draft_number").v])]_vars

\* the second of two drafts stored at different times was just picked for
\* deletion
C6_Witness ==
    \E u \in Users :
        /\ sess[u].state = "DeleteDraftForm:waiting_for_confirm"
        /\ out.reply = "delete_confirm_prompt"
        /\ Get(sess[u].data, "draft_number") = I(2)
        /\ Cardinality(LiveDraftsOf(u)) = 2
        /\ \E L \in FreshListings(u) : Get(sess[u].data, "draft_id") = I(L[2].id)
        /\ \A L \in FreshListings(u) : L[1].created_at < L[2].created_at

\* C10: a draft disappears only in a step that handles a tap on the
\* confirmation button of the deletion prompt shown for that very draft; no
\* other single user action deletes a draft.
C10_DeleteOnlyAfterConfirmation ==
    [][\A r \in drafts :
          ~IdIn(r.id, drafts')
          => /\ ev'.kind = "callback" /\ ev'.h = "cb_delete_confirm"
             /\ out'.ref = r.id /\ out'.reply = "draft_deleted"]_vars

-----------------------------------------------------------------------------
(* Properties of ownership *)

\* the id names a stored draft that user a does not own
ForeignId(a, id) == \E d \in drafts : d.id = id /\ d \notin LiveDraftsOf(a)

\* the reply carries content of draft d: its payload, its caption or its file
Carries(o, d) ==
    \E i \in DOMAIN o.sent :
        \/ o.sent[i].body = d.draft_text
        \/ parse_media_draft(d.draft_text).ok
           /\ o.sent[i].body = parse_media_draft(d.draft_text).caption

\* the answer each id-carrying button gives for an id that names no draft
MissingAnswer(a, cd) ==
    \/ cb_media_view(a, cd) /\ out' = Out("media_not_found", <<>>, "none") /\ sess' = sess
    \/ cb_media_send(a, cd) /\ out' = Out("media_not_found", <<>>, "none") /\ sess' = sess
    \/ cb_media_del(a, cd)
       /\ out' = OutRef("media_not_deleted", "false", ToInt(CbArg(cd))) /\ sess' = sess
    \/ cb_delete_confirm(a, cd)
       /\ out' = OutRef("delete_failed", "false", ToInt(CbArg(cd)))
       /\ sess' = [sess EXCEPT ![a] = FreshSession]

\* button data cd, tapped by user a, is handled in this step
Tapped(a, cd) ==
    \/ cb_media_view(a, cd) \/ cb_media_send(a, cd)
    \/ cb_media_del(a, cd) \/ cb_delete_confirm(a, cd)

\* the button data that carry a draft id
IdButtons ==
    UNION {IdCallbacks(n, MaxDraftId) :
              n \in {"media_view", "media_send", "media_del", "delete_confirm"}}

\* C11: a step that handles an event of user a leaves the drafts and the
\* session of every other user b as they were, shows and sends nothing of
\* b's drafts, lists none of them, and a button carrying the id of a draft a does not own is
\* answered as a button carrying an id that names no draft.
C11_NoCrossUserEffect ==
    [][\A a, b \in Users :
          (a # b /\ ev'.u = a)
          => /\ sess'[b] = sess[b]
             /\ LiveDraftsOf(b)' = LiveDraftsOf(b)
             /\ \A d \in LiveDraftsOf(b) : ~Carries(out', d)
             /\ \A L \in get_user_drafts_full(a)' :
                   \A i \in DOMAIN L : L[i] \notin LiveDraftsOf(b)'
             /\ \A cd \in IdButtons :
                   (/\ ev'.kind = "callback"
                    /\ ForeignId(a, ToInt(CbArg(cd)))
                    /\ Tapped(a, cd))
                   => MissingAnswer(a, cd)]_vars

\* user 1 has just tapped the delete button carrying the id of a draft of
\* user 2, who is in the middle of editing that draft
C11_Witness ==
    /\ ev.u = 1 /\ ev.h = "cb_media_del" /\ out.reply = "media_not_deleted"
    /\ \E d \in LiveDraftsOf(2) : d.id = out.ref
    /\ sess[2].state = "EditDraftForm:waiting_for_text"

-----------------------------------------------------------------------------
(* Properties of the generated-post card *)

\* the sub-states of the card that wait for a message
CardSubStates ==
    {"EditGeneratedPostForm:waiting_for_ai_edit", "EditGeneratedPostForm:waiting_for_media"}

\* C12: entering a sub-state of the card changes nothing in the scratchpad,
\* and /cancel sent in a sub-state puts the session back on the card with
\* the scratchpad, the post text and the attached media in it, as it was.
C12_SubStateCancelKeepsPost ==
    [][\A u \in Users :
          /\ (/\ ev'.u = u
              /\ ev'.h \in {"cb_genpost_ai_edit", "cb_genpost_attach_media"})
             => (sess'[u].state \in CardSubStates /\ sess'[u].data = sess[u].data)
          /\ (/\ ev'.u = u /\ ev'.kind = "message" /\ ev'.cancel
              /\ sess[u].state \in CardSubStates)
             => /\ sess'[u].state = Editing
                /\ sess'[u].data = sess[u].data
                /\ Get(sess'[u].data, "last_generated_post")
                      = Get(sess[u].data, "last_generated_post")
                /\ Get(sess'[u].data, "attached_media")
                      = Get(sess[u].data, "attached_media")]_vars

\* the AI-edit sub-state of a post with attached media was just cancelled
C12_Witness ==
    \E u \in Users :
        /\ ev.u = u /\ ev.cancel /\ ev.h = "process_genpost_ai_edit"
        /\ sess[u].state = Editing
        /\ Truthy(Get(sess[u].data, "last_generated_post"))
        /\ Truthy(Get(sess[u].data, "attached_media"))

-----------------------------------------------------------------------------
(* Properties of the draft builder *)

\* what the user can send at the conclusion step
ConclusionMsgs == WordMsgs \cup {TextMsg(<<"-">>)}

\* the four sections of a payload, in order: label, separator, field text
SectionsOf(idea, title, body, conclusion) ==
    << <<"Idea:", " ">> \o idea, <<"Title:", " ">> \o title,
       <<"Text:", "NL">> \o body, <<"Conclusion:", "NL">> \o conclusion >>

\* the sections k..4 of those whose field is not empty, a blank line between
RECURSIVE PayloadFrom(_, _, _)
PayloadFrom(fields, sections, k) ==
    IF k > 4 THEN <<>>
    ELSE LET rest == PayloadFrom(fields, sections, k + 1) IN
         IF fields[k] = <<>> THEN rest
         ELSE IF rest = <<>> THEN sections[k]
         ELSE sections[k] \o <<"NL", "NL">> \o rest

\* the payload the builder is to persist for these four inputs
ExpectedPayload(idea, title, body, conclusion_input) ==
    LET conclusion == IF conclusion_input = <<"-">> THEN <<>> ELSE conclusion_input
    IN PayloadFrom(<<idea, title, body, conclusion>>,
                   SectionsOf(idea, title, body, conclusion), 1)

\* the scratchpad text under key k, empty when there is none
FieldOf(d, k) == IF k \in DOMAIN d /\ d[k].t = "str" THEN d[k].v ELSE <<>>

\* C13: the conclusion step persists one new draft whose payload is the
\* sections idea, title, body, conclusion, in that order, of the fields that
\* are not empty, a conclusion input of "-" counting as empty.
C13_FinalizePersistsSections ==
    [][\A u \in Users : \A m \in ConclusionMsgs :
          process_draft_conclusion(u, m)
          => \E r \in drafts' \ drafts :
                /\ drafts' = drafts \cup {r}
                /\ r.draft_text =
                      ExpectedPayload(FieldOf(sess[u].data, "idea"),
                                      FieldOf(sess[u].data, "title"),
                                      FieldOf(sess[u].data, "body"), Strip(m.text))]_vars

\* a draft with idea, title and body sections and no conclusion section was
\* just persisted for the conclusion input "-"
C13_Witness ==
    /\ ev.h = "process_draft_conclusion" /\ out.reply = "draft_saved"
    /\ \E r \in drafts :
          r.draft_text = <<"Idea:", " ", "a", "NL", "NL", "Title:", " ", "a",
                           "NL", "NL", "Text:", "NL", "a">>

SkipButton == <<"draft_skip_conclusion">>

\* C14: from the conclusion step the skip button and the text "-" have the
\* same outcome: a step of either is a step the other can take from the same
\* state, it persists one draft carrying the scratchpad idea, and it leaves
\* the session idle with an empty scratchpad.
C14_SkipAndDashAgree ==
    [][\A u \in Users :
          (/\ sess[u].state = "DraftForm:conclusion"
           /\ \/ process_draft_conclusion(u, TextMsg(<<"-">>))
              \/ cb_draft_skip_conclusion(u, SkipButton))
          => /\ finalize_draft(u, <<>>)
             /\ finalize_draft(u, <<"-">>)
             /\ sess'[u] = FreshSession
             /\ \E r \in drafts' \ drafts :
                   /\ drafts' = drafts \cup {r}
                   /\ r.idea_text = FieldOf(sess[u].data, "idea")]_vars

\* the skip button was just used at the conclusion step and a draft persisted
C14_Witness ==
    /\ ev.h = "cb_draft_skip_conclusion" /\ out.reply = "draft_saved"
    /\ sess[ev.u] = FreshSession
    /\ \E r \in drafts : r.idea_text = <<"a">>

\* C15: the hand-over of a captured, non-empty idea puts the session at the
\* builder's title step with that idea in the scratchpad; from there the
\* title and body steps store what was sent and keep the idea, and the
\* conclusion step persists the draft of the regular builder for the same
\* idea, title, body and conclusion, whatever the scratchpad held before.
C15_OwnIdeaEntersBuilder ==
    [][\A u \in Users :
          LET d == sess[u].data
              captured == Strip(OrEmpty(Get(d, "idea_for_draft")))
          IN /\ (cb_ownidea_to_draft(u, <<"ownidea_to_draft">>) /\ captured # <<>>)
                => /\ sess'[u].state = "DraftForm:title"
                   /\ Get(sess'[u].data, "idea") = S(captured)
             /\ \A m \in WordMsgs :
                   (process_draft_title(u, m) /\ Strip(m.text) # <<>>)
                   => /\ sess'[u].state = "DraftForm:body"
                      /\ FieldOf(sess'[u].data, "title") = Strip(m.text)
                      /\ FieldOf(sess'[u].data, "idea") = FieldOf(d, "idea")
             /\ \A m \in WordMsgs :
                   (process_draft_body(u, m) /\ Strip(m.text) # <<>>)
                   => /\ sess'[u].state = "DraftForm:conclusion"
                      /\ FieldOf(sess'[u].data, "body") = Strip(m.text)
                      /\ FieldOf(sess'[u].data, "title") = FieldOf(d, "title")
                      /\ FieldOf(sess'[u].data, "idea") = FieldOf(d, "idea")
             /\ \A m \in ConclusionMsgs :
                   process_draft_conclusion(u, m)
                   => /\ FieldOf(d, "idea") # <<>>
                      /\ \E r \in drafts' \ drafts :
                            /\ drafts' = drafts \cup {r}
                            /\ r.user_id = UserIdOf(u)
                            /\ r.idea_text = FieldOf(d, "idea")
                            /\ r.draft_text =
                                  ExpectedPayload(FieldOf(d, "idea"), FieldOf(d, "title"),
                                                  FieldOf(d, "body"), Strip(m.text))]_vars

\* a draft was just persisted whose idea was captured outside the builder
C15_Witness ==
    /\ ev.h = "process_draft_conclusion" /\ out.reply = "draft_saved"
    /\ \E r \in drafts :
          /\ r.idea_text = <<"i">>
          /\ r.draft_text = <<"Idea:", " ", "i", "NL", "NL", "Title:", " ", "a",
                              "NL", "NL", "Text:", "NL", "a",
                              "NL", "NL", "Conclusion:", "NL", "a">>

-----------------------------------------------------------------------------
(* Properties of the media codec *)

\* C16: decoding the payload built from a kind, a reference without "|" and
\* any caption, empty or holding "|", gives back exactly that kind, that
\* reference and that caption.
C16_DecodeInvertsEncode ==
    codec.pc = "decoded"
    => codec.media_info = [ok |-> TRUE, type |-> <<codec.kind>>,
                           file_id |-> <<codec.ref>>, caption |-> codec.caption]

\* a caption holding the separator went through the codec and came back whole
C16_Witness ==
    /\ codec.pc = "decoded"
    /\ codec.caption = <<"c", "|", "c">>
    /\ codec.media_info.ok
    /\ codec.media_info.caption = <<"c", "|", "c">>

\* the step being taken persists through a media path: the media dialog, or
\* the save button of a generated post that has media attached
MediaPath ==
    \/ ev'.h = "process_save_media_draft"
    \/ ev'.h = "cb_genpost_save" /\ Truthy(Get(sess[ev'.u].data, "attached_media"))

\* C17: a draft is decoded as media by its consumers exactly when the step
\* that persisted its payload was a media path; a payload persisted by the
\* builder, by the edit dialog or by saving a post without media is not.
C17_EncodingFollowsPath ==
    [][\A r \in drafts' \ drafts : parse_media_draft(r.draft_text).ok <=> MediaPath]_vars

-----------------------------------------------------------------------------
(* Properties of input handling *)

\* a step of user u on input its handler cannot use: no text where text is
\* asked for, a word where a position is asked for, no media where media is
\* asked for, no channel where a channel is asked for
InvalidInputStep(u) ==
    \/ \E m \in {EmptyMsg, WordMsg} :
          \/ process_send_draft_number(u, m)
          \/ process_edit_draft_id(u, m)
          \/ process_delete_draft_id(u, m)
          \/ process_save_media_draft(u, m)
    \/ process_send_draft_channel(u, EmptyMsg)
    \/ process_edit_draft_text(u, EmptyMsg)
    \/ process_profile(u, EmptyMsg)
    \/ process_own_idea_for_idea(u, EmptyMsg)
    \/ process_draft_idea(u, EmptyMsg)
    \/ process_draft_title(u, EmptyMsg)
    \/ process_draft_body(u, EmptyMsg)

\* the answers that ask for the same input again
RePrompts ==
    {"number_must_be_digit", "no_media_seen", "text_empty", "idea_empty", "title_empty",
     "body_empty"}

\* C18: input a step cannot use is answered with a request for it and
\* leaves the session state, the scratchpad and the drafts as they were.
C18_InvalidInputRePrompts ==
    [][\A u \in Users :
          InvalidInputStep(u)
          => /\ sess'[u] = sess[u]
             /\ drafts' = drafts
             /\ out'.sent = <<>>
             /\ out'.reply \in RePrompts]_vars

-----------------------------------------------------------------------------
(* Properties of store failures *)

\* the step being taken is a handler of user u left by a store exception
StoreErrorStep(u) ==
    \/ \E m \in ConclusionMsgs : process_draft_conclusion_raises(u, m)
    \/ cb_draft_skip_conclusion_raises(u, SkipButton)
    \/ \E m \in Msgs : process_save_media_draft_raises(u, m)
    \/ \E m \in NumberMsgs : process_edit_draft_id_raises(u, m)
    \/ \E m \in WordMsgs : process_edit_draft_text_raises(u, m)

\* C19: a store failure in a persisting step aborts the flow: the session
\* ends idle with an empty scratchpad and a failure message is answered.
C19_StoreFailureAbortsFlow ==
    [][\A u \in Users :
          StoreErrorStep(u)
          => /\ sess'[u] = FreshSession
             /\ out'.reply # "none"]_vars

\* C20: a store failure in a step of a flow creates and changes no draft and
\* leaves the session state and the scratchpad as they were, so that the
\* same input is dispatched to the same handler again.
C20_StoreFailureKeepsFlow ==
    [][\A u \in Users :
          StoreErrorStep(u)
          => /\ drafts' = drafts
             /\ sess'[u] = sess[u]
             /\ \A m \in Msgs :
                   (ev'.kind = "message" /\ MsgRouteTable[m][sess[u].state] = ev'.h)
                   => MsgRouteTable[m][sess'[u].state] = ev'.h]_vars

\* the builder's persisting step was just left by a store exception, the
\* session still at the conclusion step with the three fields collected
C20_Witness ==
    /\ ev.h = "process_draft_conclusion" /\ out.result = "raised"
    /\ sess[ev.u].state = "DraftForm:conclusion"
    /\ FieldOf(sess[ev.u].data, "idea") = <<"a">>
    /\ FieldOf(sess[ev.u].data, "title") = <<"a">>
    /\ FieldOf(sess[ev.u].data, "body") = <<"a">>
    /\ drafts = {}

-----------------------------------------------------------------------------
(* Properties of the dispatcher *)

\* the first message handler at or after registration i that accepts m in st
RECURSIVE FirstMessageHandler(_, _, _)
FirstMessageHandler(m, st, i) ==
    IF i > Len(MessageHandlers) THEN "none"
    ELSE IF MsgMatches(MessageHandlers[i], m, st) THEN MessageHandlers[i].h
    ELSE FirstMessageHandler(m, st, i + 1)

\* the first callback handler at or after registration i that accepts cd
RECURSIVE FirstCallbackHandler(_, _)
FirstCallbackHandler(cd, i) ==
    IF i > Len(CallbackHandlers) THEN "none"
    ELSE IF CbMatches(CallbackHandlers[i], cd) THEN CallbackHandlers[i].h
    ELSE FirstCallbackHandler(cd, i + 1)

\* the earliest accepting handler of every message in every state
FirstMessageHandlerTable ==
    [m \in RoutingMsgs |-> [st \in States |-> FirstMessageHandler(m, st, 1)]]

\* the earliest accepting handler of every callback query
FirstCallbackHandlerTable == [cd \in Callbacks |-> FirstCallbackHandler(cd, 1)]

-----------------------------------------------------------------------------
(* Properties of the delete and edit dialogs *)

WaitConfirm == "DeleteDraftForm:waiting_for_confirm"

\* C22: the id step shows and stores the durable id of one live draft of the
\* user, an id no later draft is given; the confirmation button, which
\* carries that id, removes the draft with that id or nothing, whatever
\* was created or deleted in between and whoever holds the typed position.
C22_ConfirmDeletesTheShownDraft ==
    [][\A u \in Users :
          /\ (/\ ev'.u = u /\ ev'.h = "process_delete_draft_id"
              /\ sess'[u].state = WaitConfirm)
             => /\ out'.reply = "delete_confirm_prompt"
                /\ Get(sess'[u].data, "draft_id") = I(out'.ref)
                /\ \E r \in LiveDraftsOf(u)' : r.id = out'.ref
          /\ (ev'.u = u /\ ev'.h = "cb_delete_confirm")
             => /\ drafts' \subseteq drafts
                /\ \A r \in drafts \ drafts' : r.id = out'.ref /\ r \in LiveDraftsOf(u)
          /\ \A r \in drafts' : IdIn(r.id, drafts) \/ r.id = nextDraftId
          /\ \A r \in drafts : r.id < nextDraftId]_vars

\* the confirmation for the draft shown as number 1 came after that draft was
\* deleted elsewhere: nothing was deleted, and the draft now at position 1 stays
C22_Witness ==
    /\ ev.h = "cb_delete_confirm" /\ out.reply = "delete_failed" /\ out.ref = 1
    /\ nextDraftId = 3
    /\ \E r \in LiveDraftsOf(ev.u) : r.id = 2
    /\ ~IdIn(1, drafts)

\* C23: a successful edit gives the draft whose id the id step stored the new
\* text as its whole payload; the id, the idea text, the owner and the
\* creation time of that draft and every other draft of every user are as
\* before.
C23_EditReplacesOnePayload ==
    [][\A u \in Users : \A m \in Msgs :
          (/\ ev'.u = u /\ ev'.h = "process_edit_draft_text"
           /\ out'.reply = "draft_updated"
           /\ process_edit_draft_text(u, m))
          => \E r \in LiveDraftsOf(u) :
                /\ Get(sess[u].data, "draft_id") = I(r.id)
                /\ drafts' = (drafts \ {r})
                             \cup {[id |-> r.id, user_id |-> r.user_id,
                                    idea_text |-> r.idea_text, created_at |-> r.created_at,
                                    draft_text |-> Strip(m.text)]}]_vars

\* user 2 just replaced the payload of an own draft while user 1 has a draft
C23_Witness ==
    /\ ev.u = 2 /\ ev.h = "process_edit_draft_text" /\ out.reply = "draft_updated"
    /\ \E r \in LiveDraftsOf(2) : r.draft_text = Str(2) /\ r.idea_text = Str(2)
    /\ \E r \in LiveDraftsOf(1) : r.draft_text = MediaPayload("photo", "f1", Str(1))

\* the answers given when the draft a dialog refers to is gone
VanishedAnswers == {"edit_draft_gone", "delete_failed"}

NumberStep(u, m) ==
    \/ process_send_draft_number(u, m)
    \/ process_edit_draft_id(u, m)
    \/ process_delete_draft_id(u, m)

\* C25: a numeric position outside 1..count of the user's current drafts
\* is answered with a request for another one, keeps the session state
\* and the scratchpad, and changes no draft.
C25_OutOfRangeRePrompts ==
    [][\A u \in Users : \A m \in NumberMsgs :
          (/\ ev'.u = u /\ ev'.h \in NumberHandlers
           /\ IsDigit(Strip(m.text))
           /\ ToInt(Strip(m.text)) \notin 1..Cardinality(LiveDraftsOf(u))
           /\ NumberStep(u, m))
          => /\ sess'[u] = sess[u]
             /\ drafts' = drafts
             /\ out'.reply = "draft_not_found"
             /\ out'.sent = <<>>]_vars

\* position 2 was refused in the delete dialog of a user with one draft
C25_Witness ==
    /\ ev.h = "process_delete_draft_id" /\ out.reply = "draft_not_found"
    /\ sess[ev.u].state = "DeleteDraftForm:waiting_for_id"
    /\ Cardinality(LiveDraftsOf(ev.u)) = 1

\* messages that are neither a command nor a reply-keyboard label
FreeTextMsgs == {m \in Msgs : m.text \notin CommandTexts}

\* the dispatcher hands every free-text message in that state to the confirm step
ConfirmTakesFreeText ==
    \A m \in FreeTextMsgs : MsgRouteTable[m][WaitConfirm] = "process_delete_draft_confirm"

\* C26: while the delete dialog awaits its confirmation every free-text
\* message goes to the confirm step, which answers with the hint to use the
\* buttons and keeps the session state, the scratchpad and every draft.
C26_FreeTextAtConfirmIsRejected ==
    [][\A u \in Users :
          /\ ConfirmTakesFreeText
          /\ (ev'.u = u /\ ev'.h = "process_delete_draft_confirm")
             => /\ sess[u].state = WaitConfirm
                /\ out'.reply = "use_buttons" /\ out'.sent = <<>>
                /\ sess'[u] = sess[u]
                /\ drafts' = drafts]_vars

\* a word was just refused at the confirmation of the delete of draft 1
C26_Witness ==
    /\ ev.h = "process_delete_draft_confirm" /\ ~ev.cancel /\ out.reply = "use_buttons"
    /\ sess[ev.u].state = WaitConfirm
    /\ Get(sess[ev.u].data, "draft_id") = I(1)
    /\ IdIn(1, drafts)

-----------------------------------------------------------------------------
(* Properties of the builder's order of steps *)

\* user u's session moves into state st on the step being taken
Enters(u, st) == sess'[u].state = st /\ sess[u].state # st

\* user u's session is in state st before and after the step being taken
StaysIn(u, st) == sess'[u].state = st /\ sess[u].state = st

\* C27: the builder's states are entered in the order confirm, idea, title,
\* body, conclusion: title from the idea step or from the own-idea
\* hand-over, body from the title step, conclusion from the body step, each
\* with the text just sent stored non-empty and kept while the session
\* stays there; a builder draft is persisted only from the conclusion
\* state, with a title and a body in the scratchpad.
C27_BuilderOrder ==
    [][\A u \in Users :
          /\ Enters(u, "DraftForm:confirm") => ev'.h \in {"cmd_draft", "cb_menu_action"}
          /\ Enters(u, "DraftForm:idea")
             => sess[u].state = "DraftForm:confirm" /\ ev'.h = "process_draft_confirm"
          /\ Enters(u, "DraftForm:title")
             => \/ sess[u].state = "DraftForm:idea" /\ ev'.h = "process_draft_idea"
                \/ ev'.h = "cb_ownidea_to_draft"
          /\ Enters(u, "DraftForm:body")
             => /\ sess[u].state = "DraftForm:title" /\ ev'.h = "process_draft_title"
                /\ FieldOf(sess'[u].data, "title") # <<>>
          /\ Enters(u, "DraftForm:conclusion")
             => /\ sess[u].state = "DraftForm:body" /\ ev'.h = "process_draft_body"
                /\ FieldOf(sess'[u].data, "body") # <<>>
          /\ (StaysIn(u, "DraftForm:body") \/ StaysIn(u, "DraftForm:conclusion")
              \/ Enters(u, "DraftForm:conclusion"))
             => FieldOf(sess'[u].data, "title") = FieldOf(sess[u].data, "title")
          /\ StaysIn(u, "DraftForm:conclusion")
             => FieldOf(sess'[u].data, "body") = FieldOf(sess[u].data, "body")
          /\ (ev'.u = u /\ drafts' # drafts)
             => /\ ev'.h \in {"process_draft_conclusion", "cb_draft_skip_conclusion"}
                /\ sess[u].state = "DraftForm:conclusion"
                /\ FieldOf(sess[u].data, "title") # <<>>
                /\ FieldOf(sess[u].data, "body") # <<>>
                /\ \E r \in drafts' \ drafts : \E c \in {<<>>, <<"a">>} :
                      /\ drafts' = drafts \cup {r}
                      /\ r.draft_text = ExpectedPayload(FieldOf(sess[u].data, "idea"),
                                            FieldOf(sess[u].data, "title"),
                                            FieldOf(sess[u].data, "body"), c)]_vars

\* a builder draft with a title and a body section was just persisted from
\* the conclusion state, the flow having been entered from the own-idea card
C27_Witness ==
    /\ ev.h = "cb_draft_skip_conclusion" /\ out.reply = "draft_saved"
    /\ \E r \in drafts :
          r.draft_text = ExpectedPayload(<<"i">>, <<"a">>, <<"a">>, <<>>)

\* C28: at the builder's confirm step a message whose trimmed text is not
\* "+" leaves the session in the confirm state with the scratchpad as it
\* was, and the session enters the idea state only on a trimmed text "+".
C28_OnlyPlusConfirms ==
    [][\A u \in Users :
          /\ \A m \in ConfirmMsgs :
                (ev'.u = u /\ ev'.h = "process_draft_confirm" /\ process_draft_confirm(u, m))
                => IF Strip(m.text) = <<"+">>
                   THEN sess'[u].state = "DraftForm:idea"
                   ELSE /\ sess[u].state = "DraftForm:confirm"
                        /\ sess'[u] = sess[u]
                        /\ drafts' = drafts
          /\ Enters(u, "DraftForm:idea")
             => \E m \in ConfirmMsgs : Strip(m.text) = <<"+">> /\ process_draft_confirm(u, m)]_vars

\* the confirm step has just turned a message down and the session is still
\* in the confirm state
C28_Witness ==
    /\ ev.h = "process_draft_confirm" /\ out.reply = "send_plus"
    /\ sess[ev.u].state = "DraftForm:confirm"

\* C29: the skip-conclusion button persists a draft only when the session
\* is in the conclusion state; tapped in any other state, the idle one
\* included, it answers with the alert, creates no draft and leaves the
\* session's state and scratchpad as they were.
C29_SkipOnlyAtConclusion ==
    [][\A u \in Users :
          (ev'.u = u /\ ev'.h = "cb_draft_skip_conclusion")
          => IF sess[u].state = "DraftForm:conclusion"
             THEN Cardinality(drafts') = Cardinality(drafts) + 1
             ELSE /\ out'.reply = "cannot_skip"
                  /\ out'.sent = <<>>
                  /\ sess'[u] = sess[u]
                  /\ drafts' = drafts /\ nextDraftId' = nextDraftId]_vars

\* the skip button was just turned down at the body step, the scratchpad
\* holding the title entered so far
C29_Witness ==
    /\ ev.h = "cb_draft_skip_conclusion" /\ out.reply = "cannot_skip"
    /\ sess[ev.u].state = "DraftForm:body"
    /\ FieldOf(sess[ev.u].data, "title") # <<>>
    /\ drafts = {}

-----------------------------------------------------------------------------
(* Properties of the generated post's sub-states *)

WaitAiEdit == "EditGeneratedPostForm:waiting_for_ai_edit"
WaitMedia == "EditGeneratedPostForm:waiting_for_media"

\* the post text in scratchpad d
PostOf(d) == Get(d, "last_generated_post")

\* scratchpads d and e agree on every key but k
SameBut(d, e, k) ==
    /\ DOMAIN d \cup {k} = DOMAIN e \cup {k}
    /\ \A x \in DOMAIN d \ {k} : d[x] = e[x]

\* C30: an AI edit that succeeds puts the session back on the card with the
\* post text replaced by the AI's answer and the rest of the scratchpad
\* kept; a media message accepted at the attach step puts the session back
\* on the card with that attachment recorded and the post text as it was;
\* and no step of either sub-state leaves a post that was not empty empty
\* or missing.
C30_SubStatesReturnToCard ==
    [][\A u \in Users :
          /\ (ev'.u = u /\ ev'.h = "process_genpost_ai_edit")
             => /\ sess[u].state = WaitAiEdit
                /\ sess'[u].state \in {Editing, WaitAiEdit, Idle}
                /\ Truthy(PostOf(sess[u].data))
                   => /\ Truthy(PostOf(sess'[u].data))
                      /\ sess'[u].state # Idle
                /\ out'.reply = "updated_post"
                   => /\ sess'[u].state = Editing
                      /\ \E edited \in AiTexts \ {<<>>} : PostOf(sess'[u].data) = S(edited)
                      /\ SameBut(sess[u].data, sess'[u].data, "last_generated_post")
                /\ out'.reply # "updated_post" /\ sess'[u].state # Idle
                   => sess'[u].data = sess[u].data
                /\ out'.reply = "edit_failed" => sess'[u].state = Editing
          /\ (ev'.u = u /\ ev'.h = "process_genpost_attach_media")
             => /\ sess[u].state = WaitMedia
                /\ sess'[u].state \in {Editing, WaitMedia}
                /\ PostOf(sess'[u].data) = PostOf(sess[u].data)
                /\ SameBut(sess[u].data, sess'[u].data, "attached_media")
                /\ \A m \in MediaMsgs :
                      (m.media # NoMedia /\ process_genpost_attach_media(u, m))
                      => /\ sess'[u].state = Editing
                         /\ Get(sess'[u].data, "attached_media") = M(m.media[1], m.media[2])]_vars

\* an AI edit has just succeeded on a post that had media attached at the
\* attach step before
C30_Witness ==
    \E u \in Users :
        /\ ev.u = u /\ ev.h = "process_genpost_ai_edit" /\ out.reply = "updated_post"
        /\ sess[u].state = Editing
        /\ PostOf(sess[u].data) = S(<<"x">>)
        /\ Get(sess[u].data, "attached_media") = M("photo", "f1")

-----------------------------------------------------------------------------
(* Properties of the generated post's AI actions *)

\* the states of the generated post's card
GenpostStates == {Editing, WaitAiEdit, WaitMedia}

\* the handlers of the card that call the AI, and what each answers when
\* the call fails
AiFailReply ==
    [h \in {"cb_genpost_shorten", "cb_genpost_expand", "cb_genpost_add_hashtags",
            "cb_genpost_ai_title", "process_genpost_ai_edit"} |->
        CASE h = "cb_genpost_shorten" -> "shorten_failed"
          [] h = "cb_genpost_expand" -> "expand_failed"
          [] h = "cb_genpost_add_hashtags" -> "hashtags_failed"
          [] h = "cb_genpost_ai_title" -> "title_failed"
          [] h = "process_genpost_ai_edit" -> "edit_failed"]

\* C31: when an AI action of the card fails while the session is in one of
\* the card's states, the user gets that action's retry message, the
\* scratchpad, post text and attached media included, is as it was, no draft
\* is touched, and the session is in one of the card's states.
C31_AiFailureAbortsTheAction ==
    [][\A u \in Users :
          (/\ ev'.u = u
           /\ ev'.h \in DOMAIN AiFailReply
           /\ out'.reply = AiFailReply[ev'.h]
           /\ sess[u].state \in GenpostStates)
          => /\ sess'[u].state \in GenpostStates
             /\ sess'[u].data = sess[u].data
             /\ Truthy(PostOf(sess'[u].data))
             /\ out'.sent = <<>>
             /\ drafts' = drafts]_vars

\* shortening a post with attached media has just failed and the session is
\* on the card
C31_Witness ==
    \E u \in Users :
        /\ ev.u = u /\ ev.h = "cb_genpost_shorten" /\ out.reply = "shorten_failed"
        /\ sess[u].state = Editing
        /\ Truthy(PostOf(sess[u].data))
        /\ Truthy(Get(sess[u].data, "attached_media"))

-----------------------------------------------------------------------------
(* Properties of the card's AI actions handled concurrently *)

\* task t has read the post text and not yet written
Awaiting(t) == tasks[t].pc = "awaiting"

\* C32: two card callbacks of one user may both be between their read and
\* their write, and each write stores the post computed from the text that
\* callback read at its start, whatever was written since: the later write
\* replaces the earlier one.
C32_SecondWriteWins ==
    [][\A t \in 1..MaxTasks :
          (Awaiting(t) /\ tasks'[t].pc = "done" /\ tasks'[t].result = "ok")
          => \E a \in TaskAiTexts \ {<<>>} :
                PostOf(sess'[tasks[t].u].data)
                   = S(AiNewPost(tasks[t].kind, PostOf(tasks[t].data).v, a))]_vars

\* shorten and add-hashtags were started on the same post text "x" and both
\* finished well, and the scratchpad holds the shortened text "y" alone
C32_Witness ==
    \E s, t \in 1..MaxTasks :
        /\ tasks[s].pc = "done" /\ tasks[s].result = "ok"
        /\ tasks[t].pc = "done" /\ tasks[t].result = "ok"
        /\ tasks[s].kind = "cb_genpost_add_hashtags" /\ tasks[t].kind = "cb_genpost_shorten"
        /\ tasks[s].u = tasks[t].u
        /\ PostOf(tasks[s].data) = S(<<"x">>) /\ PostOf(tasks[t].data) = S(<<"x">>)
        /\ PostOf(sess[tasks[t].u].data) = S(<<"y">>)

-----------------------------------------------------------------------------
(* Properties of user provisioning *)

\* C33: there is at most one user record for each chat identity, every
\* draft belongs to a user record, and every handler that reached the store
\* completed its operation.
C33_OneRecordAndEveryHandlerCompletes ==
    /\ \A r1, r2 \in users : r1.telegram_id = r2.telegram_id => r1 = r2
    /\ \A d \in drafts : \E r \in users : r.id = d.user_id
    /\ \A t \in 1..MaxTasks : tasks[t].pc = "done" => tasks[t].result = "ok"

-----------------------------------------------------------------------------
(* Properties of the flows' last steps *)

\* what each flow's last step answers: builder finalize, media save, edit
\* applied, delete confirmed or cancelled, send attempted, search answered,
\* generated post saved or closed
TerminalReplies ==
    [h \in {"process_draft_conclusion", "cb_draft_skip_conclusion", "process_save_media_draft",
            "process_edit_draft_text", "cb_delete_confirm", "cb_delete_cancel",
            "process_send_draft_channel", "process_search", "cb_save_generated_post",
            "cb_genpost_save", "cb_close_generated_post", "cb_genpost_close"} |->
        CASE h \in {"process_draft_conclusion", "cb_draft_skip_conclusion"} -> {"draft_saved"}
          [] h = "process_save_media_draft" -> {"media_saved"}
          [] h = "process_edit_draft_text" -> {"draft_updated"}
          [] h = "cb_delete_confirm" -> {"draft_deleted", "delete_failed"}
          [] h = "cb_delete_cancel" -> {"delete_cancelled"}
          [] h = "process_send_draft_channel" ->
               {"draft_sent", "post_sent", "send_forbidden", "send_failed"}
          [] h = "process_search" -> {"nothing_to_search", "nothing_found", "search_results"}
          [] h \in {"cb_save_generated_post", "cb_genpost_save"} -> {"post_saved"}
          [] h \in {"cb_close_generated_post", "cb_genpost_close"} -> {"post_not_saved"}]

\* the step being taken is the last step of a flow of user u
TerminalStep(u) ==
    /\ ev'.u = u
    /\ ev'.h \in DOMAIN TerminalReplies
    /\ out'.reply \in TerminalReplies[ev'.h]

\* C34: the last step of every flow leaves the session idle with no field
\* in the scratchpad.
C34_TerminalStepsClearTheSession ==
    [][\A u \in Users :
          TerminalStep(u) => sess'[u].state = Idle /\ DOMAIN sess'[u].data = {}]_vars

\* a send of a generated post has just failed, from a session that held the
\* post, and the session is idle and empty
C34_Witness ==
    \E u \in Users :
        /\ ev.u = u /\ ev.h = "process_send_draft_channel" /\ out.reply = "send_failed"
        /\ out.sent # <<>>
        /\ sess[u] = FreshSession

-----------------------------------------------------------------------------
(* Properties of the idle session *)

\* C35: an idle session's scratchpad holds no key but the cached user
\* identity.
C35_IdleHoldsNoFlowData ==
    \A u \in Users :
        sess[u].state = Idle => DOMAIN sess[u].data \subseteq {"_user_telegram_id"}

\* C36: a delete_confirm or delete_cancel button tapped while the session
\* is not awaiting the delete confirmation leaves the session's state and
\* scratchpad as they were.
C36_StaleDeleteButtonKeepsSession ==
    [][\A u \in Users :
          (/\ ev'.u = u
           /\ ev'.h \in {"cb_delete_confirm", "cb_delete_cancel"}
           /\ sess[u].state # WaitConfirm)
          => sess'[u] = sess[u]]_vars

-----------------------------------------------------------------------------
(* Properties of a newly generated post *)

\* the handlers that put a newly generated post on the card
PostGenerators == {"process_rewrite", "cb_ownidea_generate_post", "process_style_topic"}

\* C37: a newly generated post arrives on the card with no attached media,
\* whatever the scratchpad held before.
C37_NewPostHasNoMedia ==
    [][\A u \in Users :
          (/\ ev'.u = u
           /\ ev'.h \in PostGenerators
           /\ sess'[u].state = Editing)
          => ~Truthy(Get(sess'[u].data, "attached_media"))]_vars

-----------------------------------------------------------------------------
(* Properties of the numbers shown next to drafts *)

\* the words searched for
SearchQueries == {<<"a">>, <<"i">>, <<"c">>}

\* every number in items names the row at that position of the listing rows
NumbersArePositions(items, rows) ==
    \A e \in items : e.number \in DOMAIN rows /\ rows[e.number].id = e.id

\* C38: in every listing of a user's drafts, each number shown by the
\* drafts page, by the search results and by the media gallery is the
\* position of that draft in the full listing, the one the delete, edit
\* and send flows resolve a typed number on.
C38_ShownNumbersArePositions ==
    \A u \in Users : \A rows \in get_user_drafts_full(u) :
        /\ NumbersArePositions(DraftsPageItems(rows), rows)
        /\ \A q \in SearchQueries : NumbersArePositions(SearchItems(rows, q), rows)
        /\ NumbersArePositions(MediaPageItems(rows), rows)

-----------------------------------------------------------------------------
(* Properties of /my_drafts inside a dialog *)

\* the states in which a dialog awaits a draft number
NumberStates == {"SendDraftForm:waiting_for_number", "EditDraftForm:waiting_for_id",
                 "DeleteDraftForm:waiting_for_id"}

\* the step being taken handles a /my_drafts message of user u
MyDraftsSent(u) ==
    /\ ev'.u = u /\ ev'.kind = "message"
    /\ \/ cmd_my_drafts(u, MyDraftsMsg)
       \/ process_send_draft_number(u, MyDraftsMsg)
       \/ process_edit_draft_id(u, MyDraftsMsg)
       \/ process_delete_draft_id(u, MyDraftsMsg)

\* C39: a /my_drafts message sent while the send, edit or delete dialog
\* awaits a draft number is answered with the listing and leaves the
\* session's state and scratchpad as they were.
C39_MyDraftsInsideNumberStep ==
    [][\A u \in Users :
          (sess[u].state \in NumberStates /\ MyDraftsSent(u))
          => /\ ev'.h = "cmd_my_drafts"
             /\ out'.reply \in {"drafts_page", "no_drafts"}
             /\ sess'[u] = sess[u]]_vars

-----------------------------------------------------------------------------
(* Properties of the registration order *)

HelpBack == <<"help", ":", "back">>

\* the registered handlers that are the first match of some event
ReachableHandlers ==
    {MsgRouteTable[m][st] : m \in Msgs, st \in States} \cup {CbRouteTable[cd] : cd \in Callbacks}

\* C40: every registered handler is the first match of some event in some
\* session state, and a tap on the button with callback data "help:back" is
\* handled by cb_help_back.
C40_EveryHandlerIsReachable ==
    [][/\ \A i \in DOMAIN MessageHandlers : MessageHandlers[i].h \in ReachableHandlers
       /\ \A i \in DOMAIN CallbackHandlers : CallbackHandlers[i].h \in ReachableHandlers
       /\ \A u \in Users :
             (ev'.u = u /\ (cb_help_section(u, HelpBack) \/ cb_help_back(u, HelpBack)))
             => ev'.h = "cb_help_back"]_vars

====
